---- MODULE Spec2Model ----
(***************************************************************************)
(* Model of the feed audit of audit_flux_streamlit.py (Merchant / French   *)
(* XML) and audit_flux_streamlit_2.py (pipe-separated TXT): the value      *)
(* normalisers, the three extractors, validate_products, the report of     *)
(* generate_excel and the run of main().                                   *)
(*                                                                         *)
(* A Python str is a sequence of one-character strings, so that strip,    *)
(* split, the regular expressions and the Decimal conversions are computed *)
(* character by character as the code computes them.  None is a value that *)
(* is no such sequence.                                                    *)
(***************************************************************************)
EXTENDS Integers, Sequences, FiniteSets, TLC

VARIABLES pc, raw, out, out2, flags, src, data, products, validated, seen_ids

vars == <<pc, raw, out, out2, flags, src, data, products, validated, seen_ids>>

(***************************************************************************)
(* Bounds of the explored inputs.                                          *)
(***************************************************************************)
MaxFracDigits == 3
MaxGtinLen == 13
MaxExp == 12
MaxBatch == 4

(***************************************************************************)
(* Python values and str methods.                                          *)
(***************************************************************************)
None == <<"None">>
Unused == <<"unused">>
MISSING == <<"M", "I", "S", "S", "I", "N", "G">>
EUR == <<"E", "U", "R">>
OK == <<"O", "K">>
Erreur == <<"E", "r", "r", "e", "u", "r">>

Digit == {"0", "1", "2", "3", "4", "5", "6", "7", "8", "9"}
UpperSeq == <<"A", "B", "C", "D", "E", "F", "G", "H", "I", "J", "K", "L", "M",
             "N", "O", "P", "Q", "R", "S", "T", "U", "V", "W", "X", "Y", "Z">>
LowerSeq == <<"a", "b", "c", "d", "e", "f", "g", "h", "i", "j", "k", "l", "m",
             "n", "o", "p", "q", "r", "s", "t", "u", "v", "w", "x", "y", "z">>
Upper == {UpperSeq[i] : i \in 1..26}
Lower == {LowerSeq[i] : i \in 1..26}
Whitespace == {" ", "\t", "\n", "\r"}
DigitSeq == <<"0", "1", "2", "3", "4", "5", "6", "7", "8", "9">>

Min(a, b) == IF a <= b THEN a ELSE b
Max(a, b) == IF a >= b THEN a ELSE b

\* bool(x) of a str or None
Truthy(x) == x # None /\ x # <<>>
\* a or b
Or(a, b) == IF Truthy(a) THEN a ELSE b

AllIn(s, S) == \A i \in 1..Len(s) : s[i] \in S

\* s.lstrip(S), s.rstrip(S), s.strip() with S a set of characters
LStripSet(s, S) ==
  LET n == IF AllIn(s, S) THEN Len(s)
           ELSE (CHOOSE k \in 0..Len(s) - 1 :
                   s[k + 1] \notin S /\ \A i \in 1..k : s[i] \in S)
  IN SubSeq(s, n + 1, Len(s))
RStripSet(s, S) ==
  LET n == IF AllIn(s, S) THEN 0
           ELSE (CHOOSE k \in 1..Len(s) :
                   s[k] \notin S /\ \A i \in k + 1..Len(s) : s[i] \in S)
  IN SubSeq(s, 1, n)
Strip(s) == LStripSet(RStripSet(s, Whitespace), Whitespace)

\* s.replace(a, b) for single characters
Replace(s, a, b) == [i \in 1..Len(s) |-> IF s[i] = a THEN b ELSE s[i]]

\* c * n
Repeat(c, n) == [i \in 1..n |-> c]

DigitVal(c) == CHOOSE v \in 0..9 : DigitSeq[v + 1] = c

RECURSIVE NatToStr(_)
NatToStr(n) == IF n < 10 THEN <<DigitSeq[n + 1]>>
               ELSE NatToStr(n \div 10) \o <<DigitSeq[(n % 10) + 1]>>

RECURSIVE StrToNat(_)
StrToNat(s) == IF s = <<>> THEN 0
               ELSE 10 * StrToNat(SubSeq(s, 1, Len(s) - 1)) + DigitVal(s[Len(s)])

(***************************************************************************)
(* Regular expressions (module re).  A pattern is a sequence of items:    *)
(* Cls(S, lo, hi) is a character class repeated lo..hi times, Plus(S) and *)
(* Star(S) the unbounded S+ and S*; Alt(alts, lo) is a non-capturing      *)
(* group of alternative patterns, optional when lo = 0; Grp(items, lo) is *)
(* a group of one.  After gives the set of offsets at which a match of    *)
(* the items can end when it starts at an offset of P.                    *)
(***************************************************************************)
Cls(S, lo, hi) ==
  [t |-> "cls", set |-> S, lo |-> lo, hi |-> hi, bounded |-> TRUE, alts |-> <<>>]
Plus(S) ==
  [t |-> "cls", set |-> S, lo |-> 1, hi |-> 1, bounded |-> FALSE, alts |-> <<>>]
Star(S) ==
  [t |-> "cls", set |-> S, lo |-> 0, hi |-> 0, bounded |-> FALSE, alts |-> <<>>]
Alt(alts, lo) ==
  [t |-> "grp", set |-> {}, lo |-> lo, hi |-> 1, bounded |-> TRUE, alts |-> alts]
Grp(items, lo) == Alt(<<items>>, lo)

RECURSIVE After(_, _, _)
After(items, s, P) ==
  IF items = <<>> \/ P = {} THEN P
  ELSE LET it == Head(items)
           most(p) == IF it.bounded THEN Min(it.hi, Len(s) - p) ELSE Len(s) - p
           step == IF it.t = "cls"
                   THEN UNION {{p + j : j \in {k \in it.lo..most(p) :
                                                \A i \in p + 1..p + k : s[i] \in it.set}}
                               : p \in P}
                   ELSE (IF it.lo = 0 THEN P ELSE {}) \cup
                        UNION {After(it.alts[a], s, P) : a \in 1..Len(it.alts)}
       IN After(Tail(items), s, step)

\* $ without re.M: the end of the string, or just before a final newline
AtDollar(s, p) == p = Len(s) \/ (p = Len(s) - 1 /\ s[Len(s)] = "\n")

\* re.compile("^" items "$").match(s) is not None
ReMatch(items, s) == \E p \in After(items, s, {0}) : AtDollar(s, p)

\* a pattern ending in \Z: the match ends at the end of the string
ReFullMatch(items, s) == Len(s) \in After(items, s, {0})

(***************************************************************************)
(* decimal.Decimal(str): the string is stripped, its underscores removed,  *)
(* and matched against the number grammar of the decimal module            *)
(*   [-+]? (digits [. digits*]? | . digits) (E [-+]? digits)?             *)
(*   | [-+]? Inf(inity)? | [-+]? s? NaN digits*        (case-insensitive) *)
(* A string outside the grammar raises InvalidOperation.                   *)
(***************************************************************************)
Ci(u, l) == Cls({u, l}, 1, 1)
_DecSign == Cls({"-", "+"}, 0, 1)
_DecExp == Grp(<<Ci("E", "e"), Cls({"-", "+"}, 0, 1), Plus(Digit)>>, 0)
_DecNumberA == <<_DecSign, Plus(Digit),
                 Grp(<<Cls({"."}, 1, 1), Star(Digit)>>, 0), _DecExp>>
_DecNumberB == <<_DecSign, Cls({"."}, 1, 1), Plus(Digit), _DecExp>>
_DecInf == <<_DecSign, Ci("I", "i"), Ci("N", "n"), Ci("F", "f"),
             Grp(<<Ci("I", "i"), Ci("N", "n"), Ci("I", "i"), Ci("T", "t"),
                   Ci("Y", "y")>>, 0)>>
_DecNaN == <<_DecSign, Cls({"S", "s"}, 0, 1), Ci("N", "n"), Ci("A", "a"),
             Ci("N", "n"), Star(Digit)>>

\* the longest prefix of s made of characters of S
TakeWhile(s, S) == SubSeq(s, 1, Len(s) - Len(LStripSet(s, S)))

StripLeadingZeros(d) ==
  LET nonEmpty(r) == IF r = <<>> THEN <<"0">> ELSE r
  IN nonEmpty(LStripSet(d, {"0"}))

\* Decimal(s): kind is "finite", "inf", "nan" or "invalid" (InvalidOperation);
\* a finite value is (-1)^neg * coef * 10^exp, coef a digit string
Decimal(s) ==
  LET \* w is empty or E [-+]? digits
      exponent(w) ==
        IF w = <<>> THEN 0
        ELSE IF w[2] = "-" THEN 0 - StrToNat(SubSeq(w, 3, Len(w)))
        ELSE IF w[2] = "+" THEN StrToNat(SubSeq(w, 3, Len(w)))
        ELSE StrToNat(Tail(w))
      finite(neg, int, frac, w) ==
        [kind |-> "finite", neg |-> neg,
         coef |-> StripLeadingZeros(int \o frac), exp |-> exponent(w) - Len(frac)]
      withFrac(neg, int, frac, v) ==
        finite(neg, int, frac, SubSeq(v, Len(frac) + 1, Len(v)))
      \* v is what follows the integer digits
      afterInt(neg, int, v) ==
        IF v # <<>> /\ v[1] = "."
        THEN withFrac(neg, int, TakeWhile(Tail(v), Digit), Tail(v))
        ELSE finite(neg, int, <<>>, v)
      withInt(neg, int, u) == afterInt(neg, int, SubSeq(u, Len(int) + 1, Len(u)))
      \* u is the number without its sign
      unsigned(neg, u) == withInt(neg, TakeWhile(u, Digit), u)
      parse(t) ==
        IF ReFullMatch(_DecNumberA, t) \/ ReFullMatch(_DecNumberB, t)
        THEN unsigned(t[1] = "-", IF t[1] \in {"-", "+"} THEN Tail(t) ELSE t)
        ELSE IF ReFullMatch(_DecInf, t)
        THEN [kind |-> "inf", neg |-> t[1] = "-", coef |-> <<>>, exp |-> 0]
        ELSE IF ReFullMatch(_DecNaN, t)
        THEN [kind |-> "nan", neg |-> t[1] = "-", coef |-> <<>>, exp |-> 0]
        ELSE [kind |-> "invalid", neg |-> FALSE, coef |-> <<>>, exp |-> 0]
  IN parse(SelectSeq(Strip(s), LAMBDA c : c # "_"))

\* the digit string d plus one
RECURSIVE Incr(_)
Incr(d) ==
  IF d = <<>> THEN <<"1">>
  ELSE IF d[Len(d)] = "9" THEN Incr(SubSeq(d, 1, Len(d) - 1)) \o <<"0">>
  ELSE SubSeq(d, 1, Len(d) - 1) \o <<DigitSeq[DigitVal(d[Len(d)]) + 2]>>

\* f"{d:.2f}" of a finite non-negative Decimal: two fractional digits,
\* rounded half to even (the rounding of the default context)
FormatF2(d) ==
  LET point(h) == SubSeq(h, 1, Len(h) - 2) \o <<".">> \o SubSeq(h, Len(h) - 1, Len(h))
      pad(hundredths) == point(Repeat("0", Max(0, 3 - Len(hundredths))) \o hundredths)
      round(kept, dropped) ==
        LET restZero == \A i \in 2..Len(dropped) : dropped[i] = "0"
            lastOdd == kept # <<>> /\ DigitVal(kept[Len(kept)]) % 2 = 1
            up == /\ dropped # <<>>
                  /\ \/ DigitVal(dropped[1]) > 5
                     \/ DigitVal(dropped[1]) = 5 /\ ~restZero
                     \/ DigitVal(dropped[1]) = 5 /\ restZero /\ lastOdd
        IN pad(StripLeadingZeros(IF up THEN Incr(kept) ELSE kept))
      \* k digits of the padded coefficient are dropped when k is positive
      split(c, k, padded) ==
        round(IF k <= 0 THEN c \o Repeat("0", 0 - k)
              ELSE SubSeq(padded, 1, Len(padded) - k),
              IF k <= 0 THEN <<>>
              ELSE SubSeq(padded, Len(padded) - k + 1, Len(padded)))
      drop(c, k) == split(c, k, Repeat("0", Max(0, k - Len(c))) \o c)
  IN drop(d.coef, 0 - d.exp - 2)

\* int(d) of a finite Decimal, truncated toward zero: [neg, digits]
DecimalToInt(d) ==
  LET int(n) == [neg |-> d.neg /\ n # <<"0">>, digits |-> n]
  IN int(StripLeadingZeros(IF d.exp >= 0 THEN d.coef \o Repeat("0", d.exp)
                           ELSE SubSeq(d.coef, 1, Len(d.coef) + d.exp)))

\* mutant: a width of 12
Format012d(val) ==
  IF val.neg
  THEN <<"-">> \o Repeat("0", Max(0, 11 - Len(val.digits))) \o val.digits
  ELSE Repeat("0", Max(0, 12 - Len(val.digits))) \o val.digits

\* f"{val:013d}": zero-padded to a width of 13, the sign inside the width
\* (the caller has checked CPython's limit on the digits of an int)
Format013d(val) ==
  IF val.neg
  THEN <<"-">> \o Repeat("0", Max(0, 12 - Len(val.digits))) \o val.digits
  ELSE Repeat("0", Max(0, 13 - Len(val.digits))) \o val.digits

(***************************************************************************)
(* 3) Normalisations                                                       *)
(***************************************************************************)
\* ^(\d+[.,]?\d*)(?:\s*([A-Z]{3}))?$
_PRICE_AMOUNT == <<Plus(Digit), Cls({".", ","}, 0, 1), Star(Digit)>>
_PRICE_CURRENCY == <<Star(Whitespace), Cls(Upper, 3, 3)>>
_PRICE_RE == _PRICE_AMOUNT \o <<Grp(_PRICE_CURRENCY, 0)>>

\* m = _PRICE_RE.match(s): whether it matched, and m.groups()
PriceMatch(s) ==
  LET groups(a, withCur) ==
        [matched |-> TRUE, amount |-> SubSeq(s, 1, a),
         currency |-> IF withCur = {} THEN None
                      ELSE LET p == CHOOSE x \in withCur : TRUE
                           IN SubSeq(s, p - 2, p)]
      \* a is where the amount ends
      amountTo(a) == groups(a, {p \in After(_PRICE_CURRENCY, s, {a}) : AtDollar(s, p)})
      \* the amount is greedy: the longest that lets the rest match
      longest(ends) == amountTo(CHOOSE x \in ends : \A y \in ends : y <= x)
  IN IF ~ReMatch(_PRICE_RE, s) THEN [matched |-> FALSE, amount |-> None, currency |-> None]
     ELSE longest({a \in After(_PRICE_AMOUNT, s, {0}) :
                     \E p \in After(<<Grp(_PRICE_CURRENCY, 0)>>, s, {a}) :
                        AtDollar(s, p)})

\* mutant: strip("0").strip(".") where the code has rstrip("0").rstrip(".")
normalize_price_strip(r) ==
  LET both(x, S) == LStripSet(RStripSet(x, S), S)
      format(raw_, m, d) ==
        IF d.kind = "invalid" THEN raw_
        ELSE Strip(both(both(FormatF2(d), {"0"}), {"."}) \o <<" ">> \o Or(m.currency, EUR))
      matched(raw_, m) ==
        IF ~m.matched THEN raw_
        ELSE format(raw_, m, Decimal(Replace(m.amount, ",", ".")))
      stripped(raw_) == matched(raw_, PriceMatch(raw_))
  IN IF ~Truthy(r) \/ r = MISSING THEN MISSING ELSE stripped(Strip(r))

\* mutant: the fixed-point amount kept as formatted, trailing zeros included
normalize_price_untrimmed(r) ==
  LET format(raw_, m, d) ==
        IF d.kind = "invalid" THEN raw_
        ELSE Strip(FormatF2(d) \o <<" ">> \o Or(m.currency, EUR))
      matched(raw_, m) ==
        IF ~m.matched THEN raw_
        ELSE format(raw_, m, Decimal(Replace(m.amount, ",", ".")))
      stripped(raw_) == matched(raw_, PriceMatch(raw_))
  IN IF ~Truthy(r) \/ r = MISSING THEN MISSING ELSE stripped(Strip(r))

normalize_price(r) ==
  LET \* amount = Decimal(...) raised InvalidOperation, or the f-string
      format(raw_, m, d) ==
        IF d.kind = "invalid" THEN raw_
        ELSE Strip(RStripSet(RStripSet(FormatF2(d), {"0"}), {"."})
                   \o <<" ">> \o Or(m.currency, EUR))
      matched(raw_, m) ==
        IF ~m.matched THEN raw_
        ELSE format(raw_, m, Decimal(Replace(m.amount, ",", ".")))
      \* raw_ is raw.strip()
      stripped(raw_) == matched(raw_, PriceMatch(raw_))
  IN IF ~Truthy(r) \/ r = MISSING THEN MISSING ELSE stripped(Strip(r))

\* sys.get_int_max_str_digits(): formatting a longer int raises ValueError
INT_MAX_STR_DIGITS == 4300

\* the value returned, or the exception raised
Return(v) == [raised |-> "", value |-> v]
Raise(e) == [raised |-> e, value |-> None]

normalize_gtin(r) ==
  LET format(val) ==
        IF Len(val.digits) > INT_MAX_STR_DIGITS THEN Return(r)   \* ValueError
        ELSE Return(Format013d(val))
      int(d) ==
        IF d.kind = "invalid" THEN Return(r)                     \* InvalidOperation
        ELSE IF d.kind = "nan" THEN Return(r)                    \* ValueError
        ELSE IF d.kind = "inf" THEN Raise("OverflowError")
        ELSE format(DecimalToInt(d))
  IN IF ~Truthy(r) \/ r = MISSING THEN Return(MISSING) ELSE int(Decimal(r))

(***************************************************************************)
(* 6) The exported attributes (_PRODUCT_ATTRS) and the rule columns        *)
(***************************************************************************)
_PRODUCT_ATTRS ==
  <<"id", "title", "link", "image_link", "price", "sale_price",
    "description", "availability", "condition", "brand",
    "gtin", "mpn", "color", "size", "age_group", "gender",
    "item_group_id", "google_product_category",
    "certification_authority", "certification_name", "certification_code",
    "product_length", "product_width", "product_height", "product_weight",
    "shipping_length", "shipping_width", "shipping_height",
    "shipping", "shipping_weight", "pattern", "material",
    "additional_image_link", "size_type", "size_system", "canonical_link",
    "expiration_date", "sale_price_effective_date", "product_highlight",
    "ships_from_country", "minimum_handling_time", "max_handling_time",
    "availability_date", "product_detail">>

_VALIDATION_ATTRS ==
  <<"duplicate_id", "invalid_or_missing_price", "null_price", "missing_title",
    "description_missing_or_short", "invalid_availability", "missing_or_empty_color",
    "missing_or_empty_gender", "missing_or_empty_size", "missing_or_empty_age_group",
    "missing_or_empty_image_link", "missing_certification",
    "missing_dimensions_weight", "invalid_dimension_format",
    "missing_google_product_category", "missing_minimum_handling_time">>

Range(f) == {f[i] : i \in DOMAIN f}

\* dict.get(key), None when the key is absent
Get(d, key) == IF key \in DOMAIN d THEN d[key] ELSE None

\* mutant: validated.append(errors), the product left out
Merge_second(a, b) == b

\* {**a, **b}
Merge(a, b) == [k \in DOMAIN a \cup DOMAIN b |-> IF k \in DOMAIN b THEN b[k] ELSE a[k]]

(***************************************************************************)
(* 5) Validation                                                           *)
(***************************************************************************)
\* mutant: the separator made mandatory, ^\d+(?:\.\d{1,2})? [A-Z]{3}$
_PRICE_VALID_RE_onespace ==
  <<Plus(Digit), Grp(<<Cls({"."}, 1, 1), Cls(Digit, 1, 2)>>, 0),
    Cls({" "}, 1, 1), Cls(Upper, 3, 3)>>

\* ^\d+(?:\.\d{1,2})?\s?[A-Z]{3}$
_PRICE_VALID_RE ==
  <<Plus(Digit), Grp(<<Cls({"."}, 1, 1), Cls(Digit, 1, 2)>>, 0),
    Cls(Whitespace, 0, 1), Cls(Upper, 3, 3)>>

\* ^\d+(?:[.,]\d+)?\s?(?:mm|cm|in|kg|g)?$ with re.I
_DIMENSION_RE ==
  <<Plus(Digit), Grp(<<Cls({".", ","}, 1, 1), Plus(Digit)>>, 0),
    Cls(Whitespace, 0, 1),
    Alt(<<<<Ci("M", "m"), Ci("M", "m")>>, <<Ci("C", "c"), Ci("M", "m")>>,
          <<Ci("I", "i"), Ci("N", "n")>>, <<Ci("K", "k"), Ci("G", "g")>>,
          <<Ci("G", "g")>>>>, 0)>>

missing(prod, attr) == Get(prod, attr) \in {<<>>, MISSING}

_DIMENSION_ATTRS ==
  {"product_length", "product_width", "product_height",
   "shipping_length", "shipping_width", "shipping_height", "product_weight"}

\* mutant: the format of an absent attribute is checked as well
dims_invalid_all(prod) ==
  \E attr \in _DIMENSION_ATTRS : ~ReMatch(_DIMENSION_RE, prod[attr])

dims_invalid(prod) ==
  \E attr \in _DIMENSION_ATTRS :
     ~missing(prod, attr) /\ ~ReMatch(_DIMENSION_RE, prod[attr])

\* "Erreur" if cond else "OK"
Flag(cond) == IF cond THEN Erreur ELSE OK

\* mutant: price.startswith("0 "), the normalised zero amount only
StartsWith0_space(price) == Len(price) >= 2 /\ price[1] = "0" /\ price[2] = " "

\* price.startswith("0")
StartsWith0(price) == Len(price) >= 1 /\ price[1] = "0"

\* mutant: the validity pattern compiled with re.I, as _DIMENSION_RE is
price_error_ignorecase(price) ==
  price = MISSING \/
  ~ReMatch(<<Plus(Digit), Grp(<<Cls({"."}, 1, 1), Cls(Digit, 1, 2)>>, 0),
             Cls(Whitespace, 0, 1), Cls(Upper \cup Lower, 3, 3)>>, price)

price_error(price) == price = MISSING \/ ~ReMatch(_PRICE_VALID_RE, price)

\* the errors dict of one product, given the ids seen before it
errors(prod, seen) ==
  [duplicate_id |-> Flag(prod["id"] \in seen),
   invalid_or_missing_price |-> Flag(price_error(prod["price"])),
   null_price |-> Flag(StartsWith0(prod["price"])),
   missing_title |-> Flag(prod["title"] = MISSING),
   description_missing_or_short |-> Flag(Len(prod["description"]) < 20),
   invalid_availability |-> Flag(prod["availability"] = MISSING),
   missing_or_empty_color |-> Flag(missing(prod, "color")),
   missing_or_empty_gender |-> Flag(missing(prod, "gender")),
   missing_or_empty_size |-> Flag(missing(prod, "size")),
   missing_or_empty_age_group |-> Flag(missing(prod, "age_group")),
   missing_or_empty_image_link |-> Flag(missing(prod, "image_link")),
   missing_certification |->
     Flag(\E a \in {"certification_authority", "certification_name",
                     "certification_code"} : missing(prod, a)),
   missing_dimensions_weight |->
     Flag(\E a \in {"product_length", "product_width", "product_height",
                     "product_weight", "shipping_length", "shipping_width",
                     "shipping_height"} : missing(prod, a)),
   invalid_dimension_format |-> Flag(dims_invalid(prod)),
   missing_google_product_category |-> Flag(missing(prod, "google_product_category")),
   missing_minimum_handling_time |-> Flag(missing(prod, "minimum_handling_time"))]

(***************************************************************************)
(* 4) Extraction.  An XML element is modelled by what findtext, find,      *)
(* findall and itertext give for it: a Merchant <item> is                  *)
(*   [g |-> tag -> text of the first g:tag child, plain |-> the same for   *)
(*    the children without namespace, shipping |-> whether there is a     *)
(*    g:shipping element and its text pieces, product_detail |-> the text  *)
(*    pieces of each g:product_detail element],                            *)
(* a <Sheet1> row is tag -> text.  A child that is absent is absent from   *)
(* the function (findtext gives None), a child without text has "".        *)
(***************************************************************************)
\* "sep".join(parts)
RECURSIVE Join(_, _)
Join(parts, sep) ==
  IF parts = <<>> THEN <<>>
  ELSE IF Len(parts) = 1 THEN parts[1]
  ELSE parts[1] \o sep \o Join(Tail(parts), sep)

\* s.split(c) for a one-character separator
RECURSIVE Split(_, _)
Split(s, c) ==
  IF \A i \in 1..Len(s) : s[i] # c THEN <<s>>
  ELSE LET k == CHOOSE i \in 1..Len(s) : s[i] = c /\ \A j \in 1..i - 1 : s[j] # c
       IN <<SubSeq(s, 1, k - 1)>> \o Split(SubSeq(s, k + 1, Len(s)), c)

\* {}
EmptyDict == [k \in {} |-> <<>>]

\* dict.get(key, default)
GetDefault(d, key, default) == IF key \in DOMAIN d THEN d[key] ELSE default

\* dict[key] = val
Put(d, key, val) == [x \in DOMAIN d \cup {key} |-> IF x = key THEN val ELSE d[x]]

\* item.findtext("g:tag", namespaces=_NAMESPACE)
FindTextG(item, tag) ==
  IF tag = "product_detail"
  THEN (IF Len(item.product_detail) = 0 THEN None
        ELSE Join(SubSeq(item.product_detail[1], 1, 1), <<>>))
  ELSE Get(item.g, tag)

\* g = lambda tag: (findtext(g:tag) or "").strip() or "MISSING"
g(item, tag) == Or(Strip(Or(FindTextG(item, tag), <<>>)), MISSING)

\* mutant: no fallback to the non-namespaced tag
g_or_plain_g(item, tag) == Or(Strip(Or(FindTextG(item, tag), <<>>)), MISSING)

\* g_or_plain = lambda tag: (findtext(g:tag) or findtext(tag) or "").strip() or "MISSING"
g_or_plain(item, tag) ==
  Or(Strip(Or(Or(FindTextG(item, tag), Get(item.plain, tag)), <<>>)), MISSING)

shipping_block(item) ==
  IF item.shipping.found THEN Strip(Join(item.shipping.itertext, <<>>)) ELSE MISSING

product_detail_txt(item) ==
  IF Len(item.product_detail) > 0
  THEN Or(Strip(Join([i \in 1..Len(item.product_detail) |->
                        Strip(Join(item.product_detail[i], <<" ">>))],
                     <<" ", "|", " ">>)), MISSING)
  ELSE g(item, "product_detail")

\* the dict literal returned by _parse_google_item
GoogleDict(item, gtin) ==
  [id |-> g(item, "id"),
   title |-> g_or_plain(item, "title"),
   description |-> g_or_plain(item, "description"),
   link |-> g_or_plain(item, "link"),
   image_link |-> g(item, "image_link"),
   price |-> normalize_price(g(item, "price")),
   sale_price |-> normalize_price(g(item, "sale_price")),
   availability |-> g(item, "availability"),
   condition |-> g(item, "condition"),
   brand |-> g(item, "brand"),
   gtin |-> gtin,
   mpn |-> g(item, "mpn"),
   color |-> g(item, "color"),
   size |-> g(item, "size"),
   age_group |-> g(item, "age_group"),
   gender |-> g(item, "gender"),
   item_group_id |-> g(item, "item_group_id"),
   certification_authority |-> g(item, "certification_authority"),
   certification_name |-> g(item, "certification_name"),
   certification_code |-> g(item, "certification_code"),
   product_length |-> g(item, "product_length"),
   product_width |-> g(item, "product_width"),
   product_height |-> g(item, "product_height"),
   product_weight |-> g(item, "product_weight"),
   shipping_length |-> g(item, "shipping_length"),
   shipping_width |-> g(item, "shipping_width"),
   shipping_height |-> g(item, "shipping_height"),
   shipping |-> shipping_block(item),
   shipping_weight |-> g(item, "shipping_weight"),
   pattern |-> g(item, "pattern"),
   material |-> g(item, "material"),
   additional_image_link |-> g(item, "additional_image_link"),
   size_type |-> g(item, "size_type"),
   size_system |-> g(item, "size_system"),
   canonical_link |-> g(item, "canonical_link"),
   expiration_date |-> g(item, "expiration_date"),
   sale_price_effective_date |-> g(item, "sale_price_effective_date"),
   product_highlight |-> g(item, "product_highlight"),
   ships_from_country |-> g(item, "ships_from_country"),
   minimum_handling_time |-> g(item, "minimum_handling_time"),
   max_handling_time |-> g(item, "max_handling_time"),
   availability_date |-> g(item, "availability_date"),
   product_detail |-> product_detail_txt(item),
   google_product_category |-> g_or_plain(item, "google_product_category")]

_parse_google_item(item) ==
  LET gtin == normalize_gtin(g(item, "gtin"))
  IN IF gtin.raised # "" THEN Raise(gtin.raised)
     ELSE Return(GoogleDict(item, gtin.value))

\* the accented spellings of the source are written with the suffix _accent
FR_TO_EN_MAPPING ==
  <<<<"titre", "title">>, <<"identifiant", "id">>, <<"prix", "price">>,
    <<"prixsolde_accent", "sale_price">>, <<"prixsolde", "sale_price">>,
    <<"etat_accent", "condition">>, <<"etat", "condition">>,
    <<"disponibilite_accent", "availability">>, <<"disponibilite", "availability">>,
    <<"lien", "link">>, <<"lienimage", "image_link">>, <<"couleur", "color">>,
    <<"taille", "size">>, <<"tranche_age", "age_group">>, <<"genre", "gender">>,
    <<"marque", "brand">>,
    <<"categoriedeproduitsgoogle_accent", "google_product_category">>,
    <<"categoriedeproduitsgoogle", "google_product_category">>,
    <<"longueur_produit", "product_length">>, <<"largeur_produit", "product_width">>,
    <<"hauteur_produit", "product_height">>, <<"poids_produit", "product_weight">>,
    <<"longueur_colis", "shipping_length">>, <<"largeur_colis", "shipping_width">>,
    <<"hauteur_colis", "shipping_height">>, <<"poids_expedition", "shipping_weight">>,
    <<"autorite_certification_accent", "certification_authority">>,
    <<"autorite_certification", "certification_authority">>,
    <<"nom_certification", "certification_name">>,
    <<"code_certification", "certification_code">>,
    <<"delai_traitement_minimum", "minimum_handling_time">>,
    <<"delai_traitement_maximum", "max_handling_time">>>>

direct_tags ==
  <<"gtin", "description", "shipping", "item_group_id", "mpn",
    "pattern", "material", "additional_image_link", "size_type",
    "size_system", "canonical_link", "expiration_date",
    "sale_price_effective_date", "product_highlight",
    "ships_from_country", "minimum_handling_time", "max_handling_time",
    "availability_date", "product_detail", "google_product_category">>

_CONCAT_TAG == "certificationcertificationauthoritycertificationcodecertificationname"

\* (item.findtext(tag) or "").strip()
FrenchText(item, tag) == Strip(Or(Get(item, tag), <<>>))

\* 1) for fr_tag, en_key in FR_TO_EN_MAPPING.items(): if raw: data[en_key] = raw
\* (the entries whose tag has text, the last of them deciding a key)
FrenchMapped(item) ==
  LET set(en) == {i \in 1..Len(FR_TO_EN_MAPPING) :
                    FR_TO_EN_MAPPING[i][2] = en /\
                    Truthy(FrenchText(item, FR_TO_EN_MAPPING[i][1]))}
      last(en) == CHOOSE i \in set(en) : \A j \in set(en) : j <= i
  IN [en \in {FR_TO_EN_MAPPING[i][2] : i \in UNION {set(FR_TO_EN_MAPPING[k][2]) :
                                                      k \in 1..Len(FR_TO_EN_MAPPING)}}
        |-> FrenchText(item, FR_TO_EN_MAPPING[last(en)][1])]

\* 2) for tag in direct_tags: if txt: data[tag] = txt
FrenchDirect(item, d) ==
  LET set == {t \in Range(direct_tags) : Truthy(FrenchText(item, t))}
  IN [k \in DOMAIN d \cup set |-> IF k \in set THEN FrenchText(item, k) ELSE d[k]]

\* 3) the concatenated certification field
FrenchConcat(item, d) ==
  LET concat_val == Strip(Or(Get(item, _CONCAT_TAG), <<>>))
      parts == Split(concat_val, ":")
  IN IF ~Truthy(concat_val) THEN d
     ELSE IF Len(parts) = 3
     THEN Put(Put(Put(d, "certification_authority", parts[1]),
                  "certification_code", parts[2]),
              "certification_name", parts[3])
     ELSE Put(d, "certification_authority", concat_val)

\* mutant: the setdefault loop left out
SetDefaults_none(d, keys) == d

\* for key in keys: data.setdefault(key, "MISSING")
SetDefaults(d, keys) ==
  [k \in DOMAIN d \cup Range(keys) |-> IF k \in DOMAIN d THEN d[k] ELSE MISSING]

_parse_french_item(item) ==
  LET d3 == FrenchConcat(item, FrenchDirect(item, FrenchMapped(item)))
      price == normalize_price(GetDefault(d3, "price", MISSING))
      sale == normalize_price(GetDefault(d3, "sale_price", MISSING))
      gtin == normalize_gtin(GetDefault(d3, "gtin", MISSING))
  IN IF gtin.raised # "" THEN Raise(gtin.raised)
     ELSE Return(SetDefaults(Put(Put(Put(d3, "price", price), "sale_price", sale),
                                 "gtin", gtin.value),
                             _PRODUCT_ATTRS))

\* [f(it) for it in items]: the list, or the first exception raised
MapItems(results) ==
  IF \E i \in 1..Len(results) : results[i].raised # ""
  THEN Raise(results[CHOOSE i \in 1..Len(results) :
                       results[i].raised # "" /\
                       \A j \in 1..i - 1 : results[j].raised = ""].raised)
  ELSE Return([i \in 1..Len(results) |-> results[i].value])

\* mutant: the Sheet1 elements are extracted as well when items exist
analyze_products_both(root) ==
  MapItems([i \in 1..Len(root.items) |-> _parse_google_item(root.items[i])] \o
           [i \in 1..Len(root.sheets) |-> _parse_french_item(root.sheets[i])])

\* root.findall(".//item") and root.findall(".//Sheet1") are root.items, root.sheets
analyze_products(root) ==
  IF root.items # <<>>
  THEN MapItems([i \in 1..Len(root.items) |-> _parse_google_item(root.items[i])])
  ELSE MapItems([i \in 1..Len(root.sheets) |-> _parse_french_item(root.sheets[i])])

(***************************************************************************)
(* 4) Extraction from a pipe-separated TXT (audit_flux_streamlit_2.py).    *)
(* The content is the sequence of its lines (text.splitlines()).           *)
(***************************************************************************)
\* s.lower()
ToLower(s) ==
  [i \in 1..Len(s) |->
     IF s[i] \in Upper THEN LowerSeq[CHOOSE k \in 1..26 : UpperSeq[k] = s[i]]
     ELSE s[i]]

\* s.isupper(): some cased character, and no lowercase one
IsUpperStr(s) ==
  (\E i \in 1..Len(s) : s[i] \in Upper) /\ (\A i \in 1..Len(s) : s[i] \notin Lower)

\* sub in s
Contains(s, sub) ==
  \E i \in 1..Len(s) - Len(sub) + 1 : SubSeq(s, i, i + Len(sub) - 1) = sub

\* get(i) of the line's fields (i counts from 0)
TxtGet(fields, i) == IF i < Len(fields) THEN Strip(fields[i + 1]) ELSE <<>>

candidate_brand(fields) ==
  LET c == TxtGet(fields, 21)
  IN IF Truthy(c) /\ ToLower(c) \notin {<<"0">>, <<"n", "a">>, <<"n", "u", "l", "l">>}
     THEN c ELSE MISSING

\* the first of fields[22:] that holds "http" and a comma
additional_image_link(fields) ==
  LET hit(i) == Contains(Strip(fields[i]), <<"h", "t", "t", "p">>) /\
                Contains(Strip(fields[i]), <<",">>)
      hits == {i \in 23..Len(fields) : hit(i)}
  IN IF hits = {} THEN MISSING
     ELSE Strip(fields[CHOOSE i \in hits : \A j \in hits : i <= j])

\* the last field of 2 or 3 characters for which isupper() holds
ships_from_country(fields) ==
  LET hit(i) == Len(Strip(fields[i])) \in {2, 3} /\ IsUpperStr(Strip(fields[i]))
      hits == {i \in 1..Len(fields) : hit(i)}
  IN IF hits = {} THEN MISSING
     ELSE Strip(fields[CHOOSE i \in hits : \A j \in hits : i >= j])

\* the body of the loop of parse_txt for one kept line
TxtProduct(ln) ==
  LET fields == Split(ln, "|")
      get(i) == TxtGet(fields, i)
      price == normalize_price(normalize_price(Or(get(3), MISSING)))
      gtin1 == normalize_gtin(Or(get(6), MISSING))
      gtin2 == normalize_gtin(gtin1.value)
      assigned == {"id", "title", "link", "price", "description", "condition", "gtin",
                   "color", "mpn", "image_link", "availability", "shipping",
                   "shipping_weight", "google_product_category", "item_group_id",
                   "gender", "age_group", "pattern", "size"}
      prod == [key \in Range(_PRODUCT_ATTRS) \cup assigned |->
                 CASE key = "id" -> Or(get(0), MISSING)
                   [] key = "title" -> Or(get(1), MISSING)
                   [] key = "link" -> Or(get(2), MISSING)
                   [] key = "price" -> price
                   [] key = "description" -> Or(get(4), MISSING)
                   [] key = "condition" -> Or(get(5), MISSING)
                   [] key = "gtin" -> gtin2.value
                   [] key = "color" -> Or(get(7), MISSING)
                   [] key = "mpn" -> Or(get(8), MISSING)
                   [] key = "image_link" -> Or(get(9), MISSING)
                   [] key = "availability" -> Or(get(11), MISSING)
                   [] key = "shipping" -> Or(get(12), MISSING)
                   [] key = "shipping_weight" -> Or(get(13), MISSING)
                   [] key = "google_product_category" -> Or(get(14), MISSING)
                   [] key = "item_group_id" -> Or(get(16), MISSING)
                   [] key = "gender" -> Or(get(17), MISSING)
                   [] key = "age_group" -> Or(get(18), MISSING)
                   [] key = "pattern" -> Or(get(19), MISSING)
                   [] key = "size" -> Or(get(20), MISSING)
                   [] key = "brand" -> candidate_brand(fields)
                   [] key = "additional_image_link" -> additional_image_link(fields)
                   [] key = "ships_from_country" -> ships_from_country(fields)
                   [] OTHER -> MISSING]
  IN IF gtin1.raised # "" THEN Raise(gtin1.raised)
     ELSE IF gtin2.raised # "" THEN Raise(gtin2.raised)
     ELSE Return(prod)

parse_txt(content) ==
  LET stripped == [i \in 1..Len(content) |-> Strip(content[i])]
      lines == SelectSeq(stripped, LAMBDA ln : ln # <<>> /\ ln[1] # "#")
  IN MapItems([i \in 1..Len(lines) |-> TxtProduct(lines[i])])

(***************************************************************************)
(* Inputs.  Strings(S, lo, hi): the strings over S of length lo..hi.       *)
(***************************************************************************)
Strings(S, lo, hi) == UNION {[1..n -> S] : n \in lo..hi}

\* a product with every attribute present and well-formed
FullProduct ==
  [k \in Range(_PRODUCT_ATTRS) |->
     CASE k = "id" -> <<"A">>
       [] k = "price" -> <<"9", ".", "5", " ", "E", "U", "R">>
       [] k = "sale_price" -> <<"9", " ", "E", "U", "R">>
       [] k = "gtin" -> Repeat("0", 12) \o <<"8">>
       [] k = "description" -> Repeat("d", 20)
       [] k \in _DIMENSION_ATTRS -> <<"1", "0", " ", "c", "m">>
       [] OTHER -> <<"v">>]

With(prod, key, val) == [prod EXCEPT ![key] = val]

\* raw price fields: an amount over a few digits, a separator, then a suffix
PriceDigits == {"0", "5", "9"}
PriceAmounts ==
  {i \o sep \o f : i \in {<<"0">>, <<"5">>, <<"9">>, <<"0", "9">>, <<"5", "9">>},
                   sep \in {<<>>, <<".">>, <<",">>},
                   f \in Strings(PriceDigits, 0, MaxFracDigits)}
PriceSuffixes ==
  {<<>>, <<"U", "S", "D">>, <<" ", "E", "U", "R">>, <<" ", " ", "G", "B", "P">>,
   <<"\n", "E", "U", "R">>, <<" ", "e", "u", "r">>, <<" ", "E", "U">>,
   <<" ", "E", "U", "R", "O">>, <<" ", "E", "U", "R", " ">>}
PriceGarbage ==
  {<<>>, MISSING, <<" ">>, <<"-", "5", " ", "E", "U", "R">>, <<"a", "b", "c">>,
   <<"5", ".", "9", ".", "0">>, <<".", "5">>, <<"E", "U", "R">>,
   <<"5", " ", "E", "U", "R", " ", "x">>, <<"5", "e", "5">>,
   <<" ", "5", ",", "5", "0", " ">>, <<"\t", "5", "\n">>}
PriceInputs == {a \o x : a \in PriceAmounts, x \in PriceSuffixes} \cup PriceGarbage

(***************************************************************************)
(* The price of one record: normalised by the extractor, normalised a      *)
(* second time by parse_txt, then judged by validate_products.             *)
(***************************************************************************)
InitPrice ==
  /\ pc = "raw"
  /\ raw \in PriceInputs
  /\ out = Unused /\ out2 = Unused /\ flags = Unused
  /\ src = Unused /\ data = Unused
  /\ products = <<>> /\ validated = <<>> /\ seen_ids = {}

\* prod["price"] = normalize_price(...)
PriceNormalize ==
  /\ pc = "raw"
  /\ out' = normalize_price(raw)
  /\ pc' = "normalized"
  /\ UNCHANGED <<raw, out2, flags, src, data, products, validated, seen_ids>>

\* parse_txt: prod["price"] = normalize_price(prod.get("price", "MISSING"))
PriceRenormalize ==
  /\ pc = "normalized"
  /\ out2' = normalize_price(out)
  /\ pc' = "final"
  /\ UNCHANGED <<raw, out, flags, src, data, products, validated, seen_ids>>

\* validate_products on the one record that carries the price
PriceValidate ==
  /\ pc \in {"normalized", "final"}
  /\ flags' = errors(With(FullProduct, "price", IF pc = "final" THEN out2 ELSE out), {})
  /\ pc' = IF pc = "final" THEN "validated_txt" ELSE "validated_xml"
  /\ UNCHANGED <<raw, out, out2, src, data, products, validated, seen_ids>>

NextPrice == PriceNormalize \/ PriceRenormalize \/ PriceValidate

SpecPrice == InitPrice /\ [][NextPrice]_vars

(***************************************************************************)
(* The gtin of one record: normalised by the extractor, and a second time  *)
(* by parse_txt.  The result is the value returned or the exception.       *)
(***************************************************************************)
GtinPlain ==
  {h \o Repeat(f, n) : h \in {<<>>, <<"0">>, <<"1">>}, f \in {"0", "8"},
                       n \in 1..MaxGtinLen}
GtinMantissas ==
  {<<"8", ".", "8", "0", "6", "1">>, <<"1">>, <<"0", ".", "5">>, <<".", "5">>,
   <<"5", ".">>, <<"1", "2", ".", "5">>, <<"1", ".", "9">>}
GtinExponents ==
  {<<>>} \cup {m \o sg \o NatToStr(n) : m \in {<<"E">>, <<"e">>},
                                        sg \in {<<>>, <<"+">>, <<"-">>},
                                        n \in 0..MaxExp}
GtinSpecial ==
  {<<>>, MISSING, <<"N", "a", "N">>, <<"n", "a", "n">>, <<"s", "N", "a", "N">>,
   <<"I", "n", "f", "i", "n", "i", "t", "y">>, <<"i", "n", "f">>,
   <<"-", "I", "n", "f", "i", "n", "i", "t", "y">>, <<"I", "N", "F">>,
   <<"a", "b", "c">>, <<"1", "2", "a">>, <<" ", "1", "2", " ">>,
   <<"1", "_", "0", "0", "0">>, <<"1", " ", "2">>, <<"E", "5">>, <<".">>, <<"-">>,
   <<"1", "e">>, <<"1", "e", "+">>, <<" ">>, <<"i", "n", "f", "i", "n">>,
   <<"N", "a", "N", "1", "2">>, <<"1", ",", "5">>}
GtinInputs ==
  {sg \o d : sg \in {<<>>, <<"-">>, <<"+">>},
             d \in GtinPlain \cup {m \o e : m \in GtinMantissas, e \in GtinExponents}}
  \cup GtinSpecial

InitGtin ==
  /\ pc = "raw"
  /\ raw \in GtinInputs
  /\ out = Unused /\ out2 = Unused /\ flags = Unused
  /\ src = Unused /\ data = Unused
  /\ products = <<>> /\ validated = <<>> /\ seen_ids = {}

\* prod["gtin"] = normalize_gtin(...)
GtinNormalize ==
  /\ pc = "raw"
  /\ out' = normalize_gtin(raw)
  /\ pc' = IF out'.raised = "" THEN "normalized" ELSE "raised"
  /\ UNCHANGED <<raw, out2, flags, src, data, products, validated, seen_ids>>

\* parse_txt: prod["gtin"] = normalize_gtin(prod.get("gtin", "MISSING"))
GtinRenormalize ==
  /\ pc = "normalized"
  /\ out2' = normalize_gtin(out.value)
  /\ pc' = IF out2'.raised = "" THEN "final" ELSE "raised"
  /\ UNCHANGED <<raw, out, flags, src, data, products, validated, seen_ids>>

NextGtin == GtinNormalize \/ GtinRenormalize

SpecGtin == InitGtin /\ [][NextGtin]_vars

(***************************************************************************)
(* Extraction of one document: analyze_products on a parsed XML root, or   *)
(* parse_txt on the content of a TXT.                                      *)
(***************************************************************************)
\* d without key when val is None, d[key] = val otherwise
SetOrDrop(d, key, val) ==
  IF val = None THEN [x \in DOMAIN d \ {key} |-> d[x]] ELSE Put(d, key, val)

\* every child present with the same text, or no child at all
Filled(tags, text) == IF text = None THEN EmptyDict ELSE [t \in tags |-> text]

GoogleTags == Range(_PRODUCT_ATTRS) \ {"shipping", "product_detail"}
PlainTags ==
  {"title", "description", "link", "google_product_category", "brand", "id", "price",
   "gtin"}
FrenchTags == {FR_TO_EN_MAPPING[i][1] : i \in 1..Len(FR_TO_EN_MAPPING)} \cup Range(direct_tags)

SomeTexts == {None, <<>>, <<" ">>, <<"v">>}
SomePrices == {None, <<"9", ",", "5", "0">>, <<"-", "5", " ", "E", "U", "R">>}
SomeGtins == {None, <<"8", ".", "8", "0", "6", "1", "E", "+", "1", "2">>, <<"i", "n", "f">>}

GoogleItems ==
  {[g |-> SetOrDrop(SetOrDrop(SetOrDrop(Filled(GoogleTags, fill), "title", gt),
                              "price", price), "gtin", gtin),
    plain |-> Filled(PlainTags, pt),
    shipping |-> ship,
    product_detail |-> pd] :
     fill \in SomeTexts, gt \in {None, <<" ">>, <<"T">>}, pt \in {None, <<>>, <<"P">>},
     price \in SomePrices, gtin \in SomeGtins,
     ship \in {[found |-> FALSE, itertext |-> <<>>], [found |-> TRUE, itertext |-> <<>>],
               [found |-> TRUE, itertext |-> <<<<"F", "R">>, <<" ">>, <<"5">>>>]},
     pd \in {<<>>, <<<<>>>>, <<<<<<"a">>, <<"b">>>>, <<>>>>}}

FrenchItems ==
  {SetOrDrop(SetOrDrop(SetOrDrop(Filled(FrenchTags, fill), "prix", price), "gtin", gtin),
             _CONCAT_TAG, concat) :
     fill \in SomeTexts, price \in SomePrices, gtin \in SomeGtins,
     concat \in {None, <<>>, <<"a", ":", "b", ":", "c">>, <<"a", ":", ":", "c">>,
                 <<"a", "b", "c">>, <<":", "b", ":">>}}

XmlRoots ==
  {[items |-> <<it>>, sheets |-> <<>>] : it \in GoogleItems} \cup
  {[items |-> <<>>, sheets |-> <<sh>>] : sh \in FrenchItems} \cup
  {[items |-> <<>>, sheets |-> <<>>],
   [items |-> <<>>, sheets |-> <<EmptyDict, Filled(FrenchTags, <<"v">>)>>]} \cup
  {[items |-> <<it, it>>, sheets |-> <<Filled(FrenchTags, <<"v">>)>>] :
     it \in {[g |-> Filled(GoogleTags, <<"v">>), plain |-> EmptyDict,
              shipping |-> [found |-> FALSE, itertext |-> <<>>],
              product_detail |-> <<>>]}}

\* a line of n fields: the same text everywhere but the price (field 3),
\* the gtin (field 6), the brand (field 21) and the last field
TxtLine(n, fill, price, gtin, brand, last) ==
  Join([i \in 1..n |->
          IF i = n /\ n > 22 THEN last
          ELSE IF i = 4 THEN price
          ELSE IF i = 7 THEN gtin
          ELSE IF i = 22 THEN brand
          ELSE fill], <<"|">>)

TxtLines ==
  {TxtLine(n, fill, price, gtin, brand, last) :
     n \in {1, 4, 7, 22, 24}, fill \in {<<>>, <<" ">>, <<"v">>},
     price \in {<<>>, <<"9", ",", "5", "0">>},
     gtin \in {<<>>, <<"8", "0">>, <<"i", "n", "f">>},
     brand \in {<<"N", "A">>, <<"A", "c", "m", "e">>},
     last \in {<<>>, <<"F", "R">>, <<"A", "1">>, <<"2", "X", "L">>,
               <<"h", "t", "t", "p", ":", "a", ",", "h", "t", "t", "p", ":", "b">>}}

TxtContents ==
  {<<ln>> : ln \in TxtLines} \cup
  {<<<<"#", " ", "i", "d", "|", "t">>, <<>>, <<" ">> \o ln \o <<" ">>, ln>> :
     ln \in {TxtLine(24, <<"v">>, <<"9">>, <<"8", "0">>, <<"N", "A">>, <<"F", "R">>)}} \cup
  {<<>>}

InitExtract ==
  /\ pc = "src"
  /\ src \in {[kind |-> "xml", doc |-> r] : r \in XmlRoots} \cup
             {[kind |-> "txt", doc |-> c] : c \in TxtContents}
  /\ data = Unused
  /\ raw = Unused /\ out = Unused /\ out2 = Unused /\ flags = Unused
  /\ products = <<>> /\ validated = <<>> /\ seen_ids = {}

\* products = analyze_products(root)
AnalyzeProducts ==
  /\ pc = "src" /\ src.kind = "xml"
  /\ data' = analyze_products(src.doc)
  /\ pc' = IF data'.raised = "" THEN "extracted" ELSE "raised"
  /\ UNCHANGED <<raw, out, out2, flags, src, products, validated, seen_ids>>

\* products = parse_txt(content)
ParseTxt ==
  /\ pc = "src" /\ src.kind = "txt"
  /\ data' = parse_txt(src.doc)
  /\ pc' = IF data'.raised = "" THEN "extracted" ELSE "raised"
  /\ UNCHANGED <<raw, out, out2, flags, src, products, validated, seen_ids>>

NextExtract == AnalyzeProducts \/ ParseTxt

SpecExtract == InitExtract /\ [][NextExtract]_vars

(***************************************************************************)
(* validate_products(products): the loop over the batch.  products is the  *)
(* argument, validated the list built so far, seen_ids the ids of the      *)
(* products already handled; the product in turn is the one after the      *)
(* last validated.                                                         *)
(***************************************************************************)
\* the ids of the batches
SomeIds == {<<"A">>, <<"B">>, <<"a">>}

\* batches of up to MaxBatch products that differ by their id
IdBatches ==
  UNION {[1..n -> {With(FullProduct, "id", i) : i \in SomeIds}] : n \in 0..MaxBatch}

\* price fields as a caller of validate_products may pass them
RulePrices ==
  {i \o f \o sep \o cur \o end :
     i \in {<<"0">>, <<"1", "2">>, <<"0", "7">>},
     f \in {<<>>, <<".", "5">>, <<".", "0", "0">>, <<".", "5", "5", "5">>, <<".">>,
            <<",", "5">>},
     sep \in {<<>>, <<" ">>, <<" ", " ">>, <<"\t">>, <<"\n">>},
     cur \in {<<"E", "U", "R">>, <<"e", "u", "r">>, <<"E", "U">>,
              <<"E", "U", "R", "O">>, <<>>},
     end \in {<<>>, <<"\n">>, <<" ">>}} \cup
  {MISSING, <<>>, <<"-", "5", " ", "E", "U", "R">>, <<"E", "U", "R">>,
   <<" ", "5", " ", "E", "U", "R">>, <<"5", " ", "E", "U", "R", "\n", "\n">>}

\* batches of one product, of any price
PriceBatches == {<<With(FullProduct, "price", p)>> : p \in RulePrices}

Init ==
  /\ pc = "loop"
  /\ products \in IdBatches \cup PriceBatches
  /\ validated = <<>> /\ seen_ids = {}
  /\ raw = Unused /\ out = Unused /\ out2 = Unused /\ flags = Unused
  /\ src = Unused /\ data = Unused

\* mutant: the id of the product is not recorded
ValidateStep_forget ==
  /\ pc = "loop" /\ Len(validated) < Len(products)
  /\ LET prod == products[Len(validated) + 1]
     IN validated' = Append(validated, Merge(prod, errors(prod, seen_ids)))
  /\ UNCHANGED <<pc, seen_ids, raw, out, out2, flags, src, data, products>>

\* one turn of "for prod in products": the errors of the product, then
\* validated.append({**prod, **errors}) and seen_ids.add(pid)
ValidateStep ==
  /\ pc = "loop" /\ Len(validated) < Len(products)
  /\ LET prod == products[Len(validated) + 1]
     IN /\ validated' = Append(validated, Merge(prod, errors(prod, seen_ids)))
        /\ seen_ids' = seen_ids \cup {prod["id"]}
  /\ UNCHANGED <<pc, raw, out, out2, flags, src, data, products>>

\* return validated
ValidateReturn ==
  /\ pc = "loop" /\ Len(validated) = Len(products)
  /\ pc' = "returned"
  /\ UNCHANGED <<raw, out, out2, flags, src, data, products, validated, seen_ids>>

Next == ValidateStep \/ ValidateReturn

Spec == Init /\ [][Next]_vars

(***************************************************************************)
(* Claims on normalize_price (specification SpecPrice)                     *)
(***************************************************************************)
\* a decimal amount, separator "." or ",", optionally followed by a
\* three-letter uppercase currency code
DecimalPriceInput(r) ==
  ReFullMatch(<<Plus(Digit), Grp(<<Cls({".", ","}, 1, 1), Plus(Digit)>>, 0),
                Grp(<<Star(Whitespace), Cls(Upper, 3, 3)>>, 0)>>, r)

\* C4: normalize_price is idempotent on every valid decimal string with
\* optional currency: normalising its own output gives the same string.
C4_Idempotent ==
  (out2 # Unused /\ DecimalPriceInput(raw)) => out2 = out

C4_Witness ==
  /\ pc = "final"
  /\ raw = <<"5", ",", "5", "0", " ", "E", "U", "R">>
  /\ out = <<"5", ".", "5", " ", "E", "U", "R">>
  /\ out2 = out

\* the amount of a price in hundredths, further digits cut
Hundredths(p) ==
  LET i == TakeWhile(p, Digit)
      rest == SubSeq(p, Len(i) + 1, Len(p))
      f == IF rest # <<>> /\ rest[1] \in {".", ","}
           THEN TakeWhile(Tail(rest), Digit) ELSE <<>>
  IN [cents |-> 100 * StrToNat(i) + StrToNat(SubSeq(f \o <<"0", "0">>, 1, 2)),
      exact |-> \A k \in 3..Len(f) : f[k] = "0"]

\* the currency code an input ends with, EUR when it has none
CurrencyOf(r) ==
  IF Len(r) >= 3 /\ AllIn(SubSeq(r, Len(r) - 2, Len(r)), Upper)
  THEN SubSeq(r, Len(r) - 2, Len(r)) ELSE EUR

\* digits, then optionally "." and one or two digits the last of which is
\* not 0, then one space, then three uppercase letters
NormalPriceForm(p) ==
  ReFullMatch(<<Plus(Digit),
                Grp(<<Cls({"."}, 1, 1), Cls(Digit, 0, 1), Cls(Digit \ {"0"}, 1, 1)>>, 0),
                Cls({" "}, 1, 1), Cls(Upper, 3, 3)>>, p)

\* C5: a decimal amount with optional currency is returned as
\* "<amount> <currency>" with one space, the amount rounded to at most two
\* fractional digits without trailing zeros or decimal point, the currency
\* the input's or EUR; the empty input and MISSING give MISSING.
C5_NormalForm ==
  pc # "raw" =>
    /\ DecimalPriceInput(raw) =>
         /\ NormalPriceForm(out)
         /\ SubSeq(out, Len(out) - 2, Len(out)) = CurrencyOf(raw)
         /\ IF Hundredths(raw).exact
            THEN Hundredths(out).cents = Hundredths(raw).cents
            ELSE Hundredths(out).cents \in
                   {Hundredths(raw).cents, Hundredths(raw).cents + 1}
    /\ raw \in {<<>>, MISSING} => out = MISSING

C5_Witness ==
  /\ pc = "normalized"
  /\ raw = <<"9", ",", "5", "0">>
  /\ out = <<"9", ".", "5", " ", "E", "U", "R">>

\* C6: a non-empty input that is no parseable price is returned trimmed
\* and unchanged, and validate_products then flags it:
\* invalid_or_missing_price = Erreur.
C6_PassThroughFlagged ==
  (raw \notin {<<>>, MISSING} /\ ~ReMatch(_PRICE_RE, Strip(raw))) =>
    /\ pc # "raw" => out = Strip(raw)
    /\ (pc \in {"final", "validated_txt"} /\ Strip(raw) # <<>>) => out2 = Strip(raw)
    /\ pc \in {"validated_xml", "validated_txt"} =>
         flags.invalid_or_missing_price = Erreur

C6_Witness ==
  /\ pc = "validated_xml"
  /\ raw = <<"5", ",", "5", "0", " ", "e", "u", "r">>
  /\ out = raw
  /\ flags.invalid_or_missing_price = Erreur

(***************************************************************************)
(* Claims on normalize_gtin (specification SpecGtin)                       *)
(***************************************************************************)
\* C7 as stated: every input that parses as a decimal number gives exactly
\* 13 characters, all digits.
C7_Exactly13Digits ==
  (pc # "raw" /\ Decimal(raw).kind = "finite" /\ Truthy(raw)) =>
    /\ out.raised = ""
    /\ Len(out.value) = 13
    /\ AllIn(out.value, Digit)

\* the digits of an integer as formatted, sign and padding removed
IntDigits(v) == StripLeadingZeros(LStripSet(v, {"-"}))

\* C7 (amended): an input that parses as a finite decimal number gives its
\* integer part zero-padded to a width of 13: at least 13 characters, no
\* padding beyond 13, only digits when the integer part is not negative
\* and a leading "-" inside the width when it is; a plain digit string
\* keeps its value, and 8.8061E+12 gives 8806100000000.  MISSING gives
\* MISSING.
C7_ZeroPaddedTo13 ==
  pc # "raw" =>
    /\ (Decimal(raw).kind = "finite" /\ Truthy(raw)) =>
         /\ out.raised = ""
         /\ Len(out.value) >= 13
         /\ Len(out.value) > 13 => out.value[1] # "0"
         /\ AllIn(out.value, Digit) \/
              (out.value[1] = "-" /\ AllIn(Tail(out.value), Digit) /\
               (Len(out.value) > 13 => out.value[2] # "0") /\
               IntDigits(out.value) # <<"0">>)
         /\ raw[1] \notin {"-"} => AllIn(out.value, Digit)
         /\ AllIn(raw, Digit) =>
              /\ IntDigits(out.value) = StripLeadingZeros(raw)
              /\ Len(out.value) = Max(13, Len(StripLeadingZeros(raw)))
         /\ raw = <<"8", ".", "8", "0", "6", "1", "E", "+", "1", "2">> =>
              out.value = <<"8", "8", "0", "6", "1">> \o Repeat("0", 8)
    /\ raw = MISSING => (out.raised = "" /\ out.value = MISSING)

C7_Witness ==
  /\ pc = "normalized"
  /\ raw = <<"1">> \o Repeat("8", 13)
  /\ out.value = raw
  /\ Len(out.value) = 14

\* C8: normalize_gtin never fails: an input that is no number with an
\* integer part (text, NaN, Infinity) is returned unchanged.
C8_NeverFails ==
  (pc # "raw" /\ Truthy(raw) /\ raw # MISSING /\ Decimal(raw).kind # "finite") =>
    (out.raised = "" /\ out.value = raw)

(***************************************************************************)
(* Claims on the extractors (specification SpecExtract)                    *)
(***************************************************************************)
\* the records an extraction returned
Extracted == IF pc = "extracted" THEN Range(data.value) ELSE {}

\* C2: every record returned by an extractor contains every canonical
\* attribute key of _PRODUCT_ATTRS, whatever fields the source carries.
C2_AllKeysPresent ==
  \A rec \in Extracted : Range(_PRODUCT_ATTRS) \subseteq DOMAIN rec

\* a <Sheet1> row with no child at all was extracted
C2_Witness ==
  /\ pc = "extracted"
  /\ src.kind = "xml"
  /\ Len(src.doc.items) = 0 /\ Len(src.doc.sheets) = 2
  /\ DOMAIN src.doc.sheets[1] = {}
  /\ Range(_PRODUCT_ATTRS) \subseteq DOMAIN data.value[1]
  /\ data.value[1]["title"] = MISSING

\* C3: in every record produced by an extractor no attribute value is the
\* empty string or None: an absent or empty source field is MISSING.
C3_NoEmptyValue ==
  \A rec \in Extracted : \A k \in DOMAIN rec : rec[k] \notin {<<>>, None}

(***************************************************************************)
(* Claims on validate_products (specification Spec)                        *)
(***************************************************************************)
\* the ids of the batch, in order
BatchIds == [i \in 1..Len(products) |-> products[i]["id"]]

\* C1: in every batch, duplicate_id of the product at position i is Erreur
\* exactly when an earlier product of the batch has the same id, and OK
\* otherwise; ids A, A, B, A give OK, Erreur, OK, Erreur.
C1_DuplicateIffEarlier ==
  /\ \A i \in 1..Len(validated) :
        validated[i]["duplicate_id"] =
          IF \E j \in 1..(i - 1) : products[j]["id"] = products[i]["id"]
          THEN Erreur ELSE OK
  /\ pc = "returned" => Len(validated) = Len(products)
  /\ (pc = "returned" /\ BatchIds = <<<<"A">>, <<"A">>, <<"B">>, <<"A">>>>) =>
        [i \in 1..4 |-> validated[i]["duplicate_id"]] = <<OK, Erreur, OK, Erreur>>

C1_Witness ==
  /\ pc = "returned"
  /\ BatchIds = <<<<"A">>, <<"A">>, <<"B">>, <<"A">>>>
  /\ [i \in 1..4 |-> validated[i]["duplicate_id"]] = <<OK, Erreur, OK, Erreur>>

\* digits, optionally "." and one or two digits
IsAmount(a) ==
  LET i == TakeWhile(a, Digit)
      rest == SubSeq(a, Len(i) + 1, Len(a))
  IN /\ Len(i) >= 1
     /\ \/ rest = <<>>
        \/ /\ rest[1] = "." /\ Len(rest) \in {2, 3}
           /\ AllIn(Tail(rest), Digit)

\* an amount, then sep, then three uppercase letters
AmountSepCode(p, seps) ==
  \E sep \in seps :
     /\ Len(p) >= Len(sep) + 4
     /\ AllIn(SubSeq(p, Len(p) - 2, Len(p)), Upper)
     /\ SubSeq(p, Len(p) - 2 - Len(sep), Len(p) - 3) = sep
     /\ IsAmount(SubSeq(p, 1, Len(p) - 3 - Len(sep)))

\* C9 as stated: invalid_or_missing_price is OK exactly when the price is
\* digits, optionally "." and 1 or 2 digits, exactly one space, exactly 3
\* uppercase letters; Erreur for MISSING and every other price.
C9_ExactlyOneSpace ==
  \A i \in 1..Len(validated) :
     validated[i]["invalid_or_missing_price"] =
       IF AmountSepCode(products[i]["price"], {<<" ">>}) THEN OK ELSE Erreur

\* p without its final line feed, if it has one
ChompLf(p) == IF p # <<>> /\ p[Len(p)] = "\n" THEN SubSeq(p, 1, Len(p) - 1) ELSE p

\* C9 (amended): invalid_or_missing_price is OK exactly when the price is
\* digits, optionally "." and 1 or 2 digits, then at most one whitespace
\* character, then exactly 3 uppercase letters, a final line feed being
\* tolerated; a price with no space before the currency is OK; MISSING
\* and every other price are Erreur.
C9_AtMostOneWhitespace ==
  \A i \in 1..Len(validated) :
     LET price == products[i]["price"]
         seps == {<<>>} \cup {<<w>> : w \in Whitespace}
     IN validated[i]["invalid_or_missing_price"] =
          IF AmountSepCode(price, seps) \/ AmountSepCode(ChompLf(price), seps)
          THEN OK ELSE Erreur

C9_Witness ==
  /\ Len(validated) = 1
  /\ products[1]["price"] = <<"1", "2", "E", "U", "R">>
  /\ validated[1]["invalid_or_missing_price"] = OK

\* C10: null_price is Erreur exactly when the price starts with the digit
\* 0, whatever invalid_or_missing_price is: a price that is valid and
\* starts with 0, such as "0.00 EUR", has invalid_or_missing_price OK and
\* null_price Erreur on the same product.
C10_NullPriceIndependent ==
  \A i \in 1..Len(validated) :
     LET price == products[i]["price"]
         zero == price # <<>> /\ Head(price) = "0"
     IN /\ validated[i]["null_price"] = IF zero THEN Erreur ELSE OK
        /\ (zero /\ AmountSepCode(price, {<<" ">>})) =>
             /\ validated[i]["invalid_or_missing_price"] = OK
             /\ validated[i]["null_price"] = Erreur

C10_Witness ==
  /\ Len(validated) = 1
  /\ products[1]["price"] = <<"0", ".", "0", "0", " ", "E", "U", "R">>
  /\ validated[1]["invalid_or_missing_price"] = OK
  /\ validated[1]["null_price"] = Erreur

\* C11: validate_products returns one record per product, in input order;
\* each record keeps every attribute of its product with the same value,
\* the only keys added are the 16 rule columns, each OK or Erreur; and the
\* input records are never modified.
C11_AdditiveOnly ==
  /\ [](/\ Len(validated) <= Len(products)
        /\ pc = "returned" => Len(validated) = Len(products)
        /\ \A i \in 1..Len(validated) :
             /\ DOMAIN validated[i] = DOMAIN products[i] \cup Range(_VALIDATION_ATTRS)
             /\ \A k \in DOMAIN products[i] : validated[i][k] = products[i][k]
             /\ DOMAIN products[i] \cap Range(_VALIDATION_ATTRS) = {}
             /\ Len(_VALIDATION_ATTRS) = 16
             /\ \A k \in Range(_VALIDATION_ATTRS) : validated[i][k] \in {OK, Erreur})
  /\ [][products' = products]_vars

C11_Witness ==
  /\ pc = "returned"
  /\ Len(products) = 3 /\ Len(validated) = 3
  /\ [i \in 1..3 |-> validated[i]["id"]] = <<<<"B">>, <<"A">>, <<"B">>>>
  /\ validated[3]["price"] = FullProduct["price"]
  /\ validated[3]["duplicate_id"] = Erreur

(***************************************************************************)
(* The report: generate_excel                                              *)
(*                                                                         *)
(* A worksheet is the sequence of its rows after the header row; a row is  *)
(* a record named by the header cells.  A Python float that the report     *)
(* computes is the exact fraction <<numerator, denominator>>; the sums and *)
(* quotients involved are exact in binary floating point wherever the      *)
(* fraction lies halfway between two one-decimal values, for batches of    *)
(* the explored sizes.                                                     *)
(***************************************************************************)
_HEADERS == _PRODUCT_ATTRS \o _VALIDATION_ATTRS

\* the dict FIELD_STATUS, as its (key, value) pairs in insertion order
FIELD_STATUS ==
  <<
    <<"id", "Mandatory">>,
    <<"title", "Mandatory">>,
    <<"link", "Mandatory">>,
    <<"image_link", "Mandatory">>,
    <<"price", "Mandatory">>,
    <<"description", "Mandatory">>,
    <<"availability", "Mandatory">>,
    <<"condition", "Mandatory IF SECOND-HAND or RECONDITIONED">>,
    <<"brand", "Mandatory">>,
    <<"gtin", "Mandatory if GTIN existing">>,
    <<"mpn", "Mandatory if GTIN already exists">>,
    <<"color", "Mandatory if CLOTHING AND ACCESSORIES">>,
    <<"size", "Mandatory if CLOTHING AND ACCESSORIES">>,
    <<"age_group", "Mandatory if CLOTHING AND ACCESSORIES">>,
    <<"gender", "Mandatory if CLOTHING AND ACCESSORIES">>,
    <<"item_group_id", "Mandatory FOR VARIANTS">>,
    <<"shipping", "Mandatory if not configured in GMC">>,
    <<"shipping_weight", "Recommended">>,
    <<"pattern", "Recommended if CLOTHING AND ACCESSORIES">>,
    <<"material", "Recommended if CLOTHING AND ACCESSORIES">>,
    <<"additional_image_link", "Recommended">>,
    <<"size_type", "Recommended if CLOTHING AND ACCESSORIES">>,
    <<"size_system", "Recommended if CLOTHING AND ACCESSORIES">>,
    <<"canonical_link", "Recommended">>,
    <<"expiration_date", "Recommended to stop displaying a product">>,
    <<"sale_price", "Recommended for promotions">>,
    <<"sale_price_effective_date", "Recommended for promotions">>,
    <<"product_highlight", "Recommended">>,
    <<"ships_from_country", "Recommended">>,
    <<"minimum_handling_time", "Recommended">>,
    <<"max_handling_time", "Recommended">>,
    <<"availability_date", "Mandatory if product is pre-ordered">>,
    <<"certification_authority", "Recommended for ELECTRONICS & HOUSEHOLD EQUIPEMENT">>,
    <<"certification_name", "Recommended for ELECTRONICS & HOUSEHOLD EQUIPEMENT">>,
    <<"certification_code", "Recommended for ELECTRONICS & HOUSEHOLD EQUIPEMENT">>,
    <<"product_detail", "Recommended">>,
    <<"product_length", "Recommended for ELECTRONICS & HOUSEHOLD EQUIPEMENT">>,
    <<"product_width", "Recommended for ELECTRONICS & HOUSEHOLD EQUIPEMENT">>,
    <<"product_height", "Recommended for ELECTRONICS & HOUSEHOLD EQUIPEMENT">>,
    <<"product_weight", "Recommended for ELECTRONICS & HOUSEHOLD EQUIPEMENT">>,
    <<"shipping_length", "Recommended for ELECTRONICS & HOUSEHOLD EQUIPEMENT">>,
    <<"shipping_width", "Recommended for ELECTRONICS & HOUSEHOLD EQUIPEMENT">>,
    <<"shipping_height", "Recommended for ELECTRONICS & HOUSEHOLD EQUIPEMENT">>,
    <<"google_product_category", "Mandatory">>
  >>

\* FIELD_STATUS.get(attr, "")
FieldStatusGet(attr) ==
  IF \E i \in 1..Len(FIELD_STATUS) : FIELD_STATUS[i][1] = attr
  THEN FIELD_STATUS[CHOOSE i \in 1..Len(FIELD_STATUS) : FIELD_STATUS[i][1] = attr][2]
  ELSE ""

\* f"{x:.1f}" of the non-negative float x = num / den: one decimal, round
\* half to even
Format1f(num, den) ==
  LET digits(tenths) == NatToStr(tenths \div 10) \o <<".", DigitSeq[(tenths % 10) + 1]>>
      round(q, r) == IF 2 * r > den \/ (2 * r = den /\ q % 2 = 1) THEN q + 1 ELSE q
  IN digits(round((10 * num) \div den, (10 * num) % den))

\* total = len(data) or 1
total(d) == IF Len(d) # 0 THEN Len(d) ELSE 1

\* missing = sum(1 for p in data if p.get(attr) in ("", "MISSING"))
missing_count(d, attr) ==
  Cardinality({i \in 1..Len(d) : Get(d[i], attr) \in {<<>>, MISSING}})

\* the keys of by_status_counts in insertion order: the non-empty statuses
\* of the attributes of _PRODUCT_ATTRS, each at its first occurrence
by_status_keys ==
  LET status(a) == FieldStatusGet(_PRODUCT_ATTRS[a])
      First(a) == status(a) # "" /\ \A b \in 1..(a - 1) : status(b) # status(a)
      firsts == SelectSeq([a \in 1..Len(_PRODUCT_ATTRS) |-> a], First)
  IN [s \in 1..Len(firsts) |-> status(firsts[s])]

\* the attributes of _PRODUCT_ATTRS whose status is the given one: one
\* completion value 100 - missing_pct is appended to by_status_counts for each
completion_attrs(status) ==
  LET Test(a) == FieldStatusGet(a) = status IN SelectSeq(_PRODUCT_ATTRS, Test)

\* sum(completion_list), over the denominator total(d)
RECURSIVE completion_sum(_, _)
completion_sum(d, attrs) ==
  IF attrs = <<>> THEN 0
  ELSE 100 * total(d) - 100 * missing_count(d, Head(attrs))
       + completion_sum(d, Tail(attrs))

\* recap.append([attr, status, total - missing, missing, f"{missing_pct:.1f}"])
recap_row(d, attr) ==
  [Attribut |-> attr, Statut |-> FieldStatusGet(attr),
   Presents |-> total(d) - missing_count(d, attr),
   Manquants |-> missing_count(d, attr),
   pct |-> Format1f(100 * missing_count(d, attr), total(d))]

\* mutant: statuses folded on their first word
synth_row_first(d, status) ==
  LET pair(p) == p[1]
      Test(p) == p[2] = status /\ p[1] \in Range(_PRODUCT_ATTRS)
      attrs == SelectSeq(FIELD_STATUS, Test)
      completion_list == completion_attrs(status)
  IN [Statut |-> IF status \in {"Mandatory", "Recommended"} THEN status
                 ELSE "Mandatory-conditional",
      Nb |-> Len(attrs),
      avg |-> IF completion_list # <<>>
              THEN Format1f(completion_sum(d, completion_list),
                            total(d) * Len(completion_list))
              ELSE <<"0", ".", "0">>,
      Attributs |-> [i \in 1..Len(attrs) |-> pair(attrs[i])]]

\* synth.append([status, len(attrs), f"{avg_completion:.1f}", ", ".join(attrs)]);
\* the last cell is kept as the list of names that the code joins with ", "
synth_row(d, status) ==
  LET pair(p) == p[1]
      Test(p) == p[2] = status /\ p[1] \in Range(_PRODUCT_ATTRS)
      attrs == SelectSeq(FIELD_STATUS, Test)
      completion_list == completion_attrs(status)
  IN [Statut |-> status,
      Nb |-> Len(attrs),
      avg |-> IF completion_list # <<>>
              THEN Format1f(completion_sum(d, completion_list),
                            total(d) * Len(completion_list))
              ELSE <<"0", ".", "0">>,
      Attributs |-> [i \in 1..Len(attrs) |-> pair(attrs[i])]]

\* the four worksheets of the workbook
generate_excel(d) ==
  LET statuses == by_status_keys
  IN [Validation |->
        [i \in 1..Len(d) |->
           [c \in 1..Len(_HEADERS) |-> GetDefault(d[i], _HEADERS[c], <<>>)]],
      Recap_Attributs |->
        [a \in 1..Len(_PRODUCT_ATTRS) |-> recap_row(d, _PRODUCT_ATTRS[a])],
      Synthese_par_statut |->
        [s \in 1..Len(statuses) |-> synth_row(d, statuses[s])],
      Regles_Attributs |-> FIELD_STATUS]

\* a product that lacks the given attributes
Without(prod, keys, val) == [k \in DOMAIN prod |-> IF k \in keys THEN val ELSE prod[k]]

\* products of a report: complete, or lacking a title (MISSING or empty), or
\* lacking the colour and the shipping dimensions
ReportProducts ==
  {FullProduct, With(FullProduct, "title", MISSING), With(FullProduct, "title", <<>>),
   Without(FullProduct, {"color", "shipping_length", "shipping_width", "title"}, MISSING)}

\* batches of up to MaxBatch products, the empty batch included
ReportBatches == UNION {[1..n -> ReportProducts] : n \in 0..MaxBatch}

InitReport ==
  /\ pc = "loop"
  /\ products \in ReportBatches
  /\ validated = <<>> /\ seen_ids = {}
  /\ raw = Unused /\ out = Unused /\ out2 = Unused /\ flags = Unused
  /\ src = Unused /\ data = Unused

\* xlsx = generate_excel(data), on the list that validate_products returned
GenerateExcel ==
  /\ pc = "returned"
  /\ pc' = "reported"
  /\ out' = generate_excel(validated)
  /\ UNCHANGED <<raw, out2, flags, src, data, products, validated, seen_ids>>

NextReport == ValidateStep \/ ValidateReturn \/ GenerateExcel

SpecReport == InitReport /\ [][NextReport]_vars

(***************************************************************************)
(* Claims on generate_excel (specification SpecReport)                     *)
(***************************************************************************)
\* the number of products of the batch whose attribute is MISSING
CountMISSING(attr) == Cardinality({i \in 1..Len(validated) : validated[i][attr] = MISSING})

\* C12: for every batch handed to the report, the empty batch included, and
\* every canonical attribute: the missing count is the number of products
\* whose attribute is MISSING, the present count is the number of the other
\* products, present + missing is the size of the batch (0 and 0 on the
\* empty batch), and the percentage is 100 * missing / max(1, size).
C12_PresentPlusMissing ==
  pc = "reported" =>
    \A a \in 1..Len(_PRODUCT_ATTRS) :
      LET row == out.Recap_Attributs[a]
      IN /\ row.Attribut = _PRODUCT_ATTRS[a]
         /\ row.Manquants = CountMISSING(row.Attribut)
         /\ row.Presents = Len(validated) - row.Manquants
         /\ row.Presents + row.Manquants = Len(validated)
         /\ row.pct = Format1f(100 * row.Manquants, Max(1, Len(validated)))

(***************************************************************************)
(* The run: main() of both applications, from the click on the button.     *)
(*                                                                         *)
(* src holds what the user entered, raw is content, data is root, out is   *)
(* xlsx and out2 is the list of the calls made to the collaborators        *)
(* (requests, the uploaded file, streamlit), in order.  A content is None, *)
(* b"" (the empty sequence), a well-formed XML document <<"xml", root>>,   *)
(* a TXT file <<"txt", text>> or bytes that are no well-formed document.   *)
(***************************************************************************)
Malformed == <<"<", "a", ">">>

\* the roots of the documents of a run: no product, two items and a sheet,
\* two sheets
MainRoots ==
  {[items |-> <<>>, sheets |-> <<>>],
   [items |-> <<>>, sheets |-> <<EmptyDict, Filled(FrenchTags, <<"v">>)>>]} \cup
  {[items |-> <<it, it>>, sheets |-> <<Filled(FrenchTags, <<"v">>)>>] :
     it \in {[g |-> Filled(GoogleTags, <<"v">>), plain |-> EmptyDict,
              shipping |-> [found |-> FALSE, itertext |-> <<>>],
              product_detail |-> <<>>]}}

\* what a URL may serve or an uploaded file may hold; a root without
\* products may have no child element at all
Contents(app) ==
  IF app = "xml"
  THEN {<<>>, Malformed} \cup
       {<<"xml", [root |-> r, childless |-> c]>> :
          r \in MainRoots, c \in {FALSE}} \cup
       {<<"xml", [root |-> [items |-> <<>>, sheets |-> <<>>], childless |-> TRUE]>>}
  ELSE {<<>>} \cup {<<"txt", [lines |-> c]>> : c \in {<<<<"#">>>>,
          <<TxtLine(24, <<"v">>, <<"9">>, <<"8", "0">>, <<"N", "A">>, <<"F", "R">>)>>}}

\* parse_xml: the root, or None after st.error on ET.ParseError
parse_xml(content) ==
  IF Len(content) = 2 /\ content[1] = "xml" THEN <<"Element", content[2]>> ELSE None

\* bool(root) of an Element: whether it has child elements
RootTruthy(root) == root # None /\ ~root[2].childless

InitMain ==
  /\ pc = "button"
  /\ src \in UNION {{[app |-> a, url |-> u, uploaded_file |-> f] :
                       u \in {<<>>, <<"u">>}, f \in {None} \cup Contents(a)} :
                       a \in {"xml", "txt"}}
  /\ raw = None /\ data = Unused /\ out = Unused /\ out2 = <<>>
  /\ products = Unused /\ validated = Unused /\ seen_ids = Unused
  /\ flags = Unused

\* mutant: after a failed download the uploaded file is read instead
MainFetch_fallback ==
  /\ pc = "button" /\ Truthy(src.url)
  /\ \/ \E response \in Contents(src.app) :
          /\ raw' = response
          /\ out2' = Append(out2, "requests.get")
     \/ /\ raw' = src.uploaded_file
        /\ out2' = out2 \o <<"requests.get", "st.error", "uploaded_file.read">>
  /\ pc' = "content"
  /\ UNCHANGED <<out, flags, src, data, products, validated, seen_ids>>

\* if url: content = fetch_xml(url) (fetch_txt): the body of the response,
\* or st.error and None on a RequestException
MainFetch ==
  /\ pc = "button" /\ Truthy(src.url)
  /\ \/ \E response \in Contents(src.app) :
          /\ raw' = response
          /\ out2' = Append(out2, "requests.get")
     \/ /\ raw' = None
        /\ out2' = out2 \o <<"requests.get", "st.error">>
  /\ pc' = "content"
  /\ UNCHANGED <<out, flags, src, data, products, validated, seen_ids>>

\* elif uploaded_file is not None: content = uploaded_file.read()
MainRead ==
  /\ pc = "button" /\ ~Truthy(src.url) /\ src.uploaded_file # None
  /\ raw' = src.uploaded_file
  /\ out2' = Append(out2, "uploaded_file.read")
  /\ pc' = "content"
  /\ UNCHANGED <<out, flags, src, data, products, validated, seen_ids>>

\* neither a URL nor a file: content stays None
MainNoSource ==
  /\ pc = "button" /\ ~Truthy(src.url) /\ src.uploaded_file = None
  /\ pc' = "content"
  /\ UNCHANGED <<raw, out, out2, flags, src, data, products, validated, seen_ids>>

\* if not content: st.warning(...); st.stop()
MainNoContent ==
  /\ pc = "content" /\ ~Truthy(raw)
  /\ out2' = out2 \o <<"st.warning", "st.stop">>
  /\ pc' = "stopped"
  /\ UNCHANGED <<raw, out, flags, src, data, products, validated, seen_ids>>

\* root = parse_xml(content)
MainParse ==
  /\ pc = "content" /\ Truthy(raw) /\ src.app = "xml"
  /\ data' = parse_xml(raw)
  /\ out2' = IF data' = None THEN out2 \o <<"ET.fromstring", "st.error">>
             ELSE Append(out2, "ET.fromstring")
  /\ pc' = "root"
  /\ UNCHANGED <<raw, out, flags, src, products, validated, seen_ids>>

\* if not root: st.stop()
MainNoRoot ==
  /\ pc = "root" /\ ~RootTruthy(data)
  /\ out2' = Append(out2, "st.stop")
  /\ pc' = "stopped"
  /\ UNCHANGED <<raw, out, flags, src, data, products, validated, seen_ids>>

\* products = analyze_products(root), then the call of validate_products;
\* an exception of the extractor ends the run
MainAnalyze ==
  /\ pc = "root" /\ RootTruthy(data)
  /\ LET result == analyze_products(data[2].root)
     IN IF result.raised = ""
        THEN /\ products' = result.value /\ validated' = <<>> /\ seen_ids' = {}
             /\ pc' = "loop"
        ELSE /\ pc' = "raised" /\ UNCHANGED <<products, validated, seen_ids>>
  /\ out2' = Append(out2, "analyze_products")
  /\ UNCHANGED <<raw, out, flags, src, data>>

\* products = parse_txt(content), then the call of validate_products
MainParseTxt ==
  /\ pc = "content" /\ Truthy(raw) /\ src.app = "txt"
  /\ LET result == parse_txt(raw[2].lines)
     IN IF result.raised = ""
        THEN /\ products' = result.value /\ validated' = <<>> /\ seen_ids' = {}
             /\ pc' = "loop"
        ELSE /\ pc' = "raised" /\ UNCHANGED <<products, validated, seen_ids>>
  /\ out2' = Append(out2, "parse_txt")
  /\ UNCHANGED <<raw, out, flags, src, data>>

\* st.success(...); st.download_button(..., data=xlsx, ...)
MainOffer ==
  /\ pc = "reported"
  /\ out2' = out2 \o <<"st.success", "st.download_button">>
  /\ pc' = "done"
  /\ UNCHANGED <<raw, out, flags, src, data, products, validated, seen_ids>>

NextMain ==
  \/ MainFetch \/ MainRead \/ MainNoSource \/ MainNoContent
  \/ MainParse \/ MainNoRoot \/ MainAnalyze \/ MainParseTxt
  \/ ValidateStep \/ ValidateReturn \/ GenerateExcel \/ MainOffer

SpecMain == InitMain /\ [][NextMain]_vars

(***************************************************************************)
(* Claims on main (specification SpecMain)                                 *)
(***************************************************************************)
\* the number of calls of the given collaborator so far
Calls(name) == Cardinality({i \in 1..Len(out2) : out2[i] = name})

\* the download or the parsing has failed: the only uses of st.error
Failed == Calls("st.error") > 0

\* the download has failed: st.error right after requests.get
FetchFailed ==
  \E i \in 1..(Len(out2) - 1) : out2[i] = "requests.get" /\ out2[i + 1] = "st.error"

\* C13: once the fetch of the URL has failed or the document has not parsed,
\* the run only stops: no extraction, no validation, no report, nothing
\* offered for download, at any later time; the URL is fetched at most once
\* and the uploaded file is not read in place of the URL.
C13_FailureStopsRun ==
  /\ [](Failed =>
          /\ pc \in {"content", "root", "stopped"}
          /\ products = Unused /\ validated = Unused /\ out = Unused
          /\ Calls("analyze_products") = 0 /\ Calls("parse_txt") = 0
          /\ Calls("st.download_button") = 0)
  /\ [][Failed => Failed' /\ pc' = "stopped"]_vars
  /\ [](Calls("requests.get") <= 1)
  /\ [](FetchFailed => Calls("uploaded_file.read") = 0 /\ raw = None)

\* a failed download with a valid file uploaded, and a document that does
\* not parse
C13_Witness ==
  /\ pc = "stopped" /\ Failed
  /\ \/ Truthy(src.url) /\ raw = None /\ Truthy(src.uploaded_file)
     \/ raw = Malformed /\ data = None

(***************************************************************************)
(* Concurrent invocations of validate_products.  Each run (a session)      *)
(* calls validate_products on a batch and may call it again on the same    *)
(* batch; the steps of the runs interleave.  data[r] is the frame of the   *)
(* call of run r: its parameter products, its locals validated and         *)
(* seen_ids, and last, the list that the run's previous call returned.     *)
(***************************************************************************)
MaxRunBatch == 2

Runs == {"run1", "run2"}

\* batches of up to MaxRunBatch products with the ids A and B
RunBatches ==
  UNION {[1..n -> {With(FullProduct, "id", i) : i \in {<<"A">>, <<"B">>}}] :
           n \in 0..MaxRunBatch}

\* validate_products run alone on the batch: its first n records
RECURSIVE validate_products(_, _)
validate_products(batch, n) ==
  IF n = 0 THEN <<>>
  ELSE Append(validate_products(batch, n - 1),
              Merge(batch[n], errors(batch[n], {batch[j]["id"] : j \in 1..(n - 1)})))

InitRuns ==
  /\ pc = "runs"
  /\ data = [r \in Runs |-> [pc |-> "idle", products |-> <<>>, validated |-> <<>>,
                             seen_ids |-> {}, again |-> FALSE, last |-> <<>>]]
  /\ raw = Unused /\ out = Unused /\ out2 = Unused /\ flags = Unused
  /\ src = Unused /\ products = Unused /\ validated = Unused /\ seen_ids = Unused

\* mutant: seen_ids is a module-level set, never emptied
RunCall_global(r) ==
  /\ data[r].pc \in {"idle", "returned"}
  /\ \E batch \in RunBatches :
       /\ data[r].pc = "returned" => batch = data[r].products
       /\ data' = [data EXCEPT ![r] =
                     [pc |-> "loop", products |-> batch, validated |-> <<>>,
                      seen_ids |-> data[r].seen_ids, again |-> data[r].pc = "returned",
                      last |-> data[r].validated]]
  /\ UNCHANGED <<pc, raw, out, out2, flags, src, products, validated, seen_ids>>

\* the call: seen_ids = set(); validated = []
RunCall(r) ==
  /\ data[r].pc \in {"idle", "returned"}
  /\ \E batch \in RunBatches :
       /\ data[r].pc = "returned" => batch = data[r].products
       /\ data' = [data EXCEPT ![r] =
                     [pc |-> "loop", products |-> batch, validated |-> <<>>,
                      seen_ids |-> {}, again |-> data[r].pc = "returned",
                      last |-> data[r].validated]]
  /\ UNCHANGED <<pc, raw, out, out2, flags, src, products, validated, seen_ids>>

\* one turn of the loop of run r
RunStep(r) ==
  /\ data[r].pc = "loop" /\ Len(data[r].validated) < Len(data[r].products)
  /\ LET step(prod) ==
           [data EXCEPT ![r].validated = Append(@, Merge(prod, errors(prod, data[r].seen_ids))),
                        ![r].seen_ids = @ \cup {prod["id"]}]
     IN data' = step(data[r].products[Len(data[r].validated) + 1])
  /\ UNCHANGED <<pc, raw, out, out2, flags, src, products, validated, seen_ids>>

\* return validated, in run r
RunReturn(r) ==
  /\ data[r].pc = "loop" /\ Len(data[r].validated) = Len(data[r].products)
  /\ data' = [data EXCEPT ![r].pc = "returned"]
  /\ UNCHANGED <<pc, raw, out, out2, flags, src, products, validated, seen_ids>>

NextRuns == \E r \in Runs : RunCall(r) \/ RunStep(r) \/ RunReturn(r)

SpecRuns == InitRuns /\ [][NextRuns]_vars

(***************************************************************************)
(* Claims on concurrent runs (specification SpecRuns)                      *)
(***************************************************************************)
\* C14: the duplicate-id set belongs to one invocation: every call starts
\* with the empty set, and whatever the other run does and whatever the
\* run's previous call saw, a batch gets the records it gets when it is
\* validated alone; validating it a second time returns the same list.
C14_SeenIdsLocal ==
  /\ [](\A r \in Runs :
          /\ data[r].validated =
               validate_products(data[r].products, Len(data[r].validated))
          /\ data[r].seen_ids =
               {data[r].products[j]["id"] : j \in 1..Len(data[r].validated)}
          /\ data[r].pc = "returned" =>
               /\ Len(data[r].validated) = Len(data[r].products)
               /\ data[r].again => data[r].last = data[r].validated)
  /\ [][\A r \in Runs : data[r].pc # "loop" /\ data'[r].pc = "loop"
                          => data'[r].seen_ids = {}]_vars

\* run1 has validated the batch (A) a second time, without a duplicate,
\* while run2 is in its loop and has already seen the id A twice
C14_Witness ==
  /\ data["run1"].pc = "returned" /\ data["run1"].again
  /\ Len(data["run1"].validated) = 1
  /\ data["run1"].validated[1]["id"] = <<"A">>
  /\ data["run1"].validated[1]["duplicate_id"] = OK
  /\ data["run2"].pc = "loop"
  /\ Len(data["run2"].validated) = 2
  /\ data["run2"].seen_ids = {<<"A">>}
  /\ data["run2"].validated[2]["duplicate_id"] = Erreur

(***************************************************************************)
(* Claims on the extractors (specification SpecExtract), continued         *)
(***************************************************************************)
\* C15: a document with at least one item element is a Merchant document:
\* its products are its item elements, each extracted by the Merchant
\* extractor, in order, and its Sheet1 elements are left out; without any
\* item element its products are its Sheet1 elements, extracted by the
\* French extractor; with neither the product list is empty and nothing is
\* raised.
C15_DialectByItems ==
  pc \in {"extracted", "raised"} /\ src.kind = "xml" =>
    LET items == src.doc.items
        sheets == src.doc.sheets
    IN /\ items # <<>> =>
            /\ data = MapItems([i \in 1..Len(items) |-> _parse_google_item(items[i])])
            /\ data.raised = "" => Len(data.value) = Len(items)
       /\ items = <<>> =>
            /\ data = MapItems([i \in 1..Len(sheets) |-> _parse_french_item(sheets[i])])
            /\ data.raised = "" => Len(data.value) = Len(sheets)
       /\ items = <<>> /\ sheets = <<>> => data = Return(<<>>)

\* two items and a Sheet1 element: two Merchant products
C15_Witness ==
  /\ pc = "extracted" /\ src.kind = "xml"
  /\ Len(src.doc.items) = 2 /\ Len(src.doc.sheets) = 1
  /\ Len(data.value) = 2
  /\ data.value[2] = _parse_google_item(src.doc.items[2]).value

\* what a non-namespaced tag gives when it is the one used
PlainValue(item, tag) == Or(Strip(Or(Get(item.plain, tag), <<>>)), MISSING)

\* the attributes whose namespaced tag is absent or empty are the
\* non-namespaced value for the tags of fallback, and MISSING for the others
FallbackOnly(fallback) ==
  pc = "extracted" /\ src.kind = "xml" /\ src.doc.items # <<>> =>
    \A i \in 1..Len(src.doc.items) :
      LET item == src.doc.items[i]
      IN \A tag \in GoogleTags :
           Get(item.g, tag) \in {None, <<>>} =>
             data.value[i][tag] = IF tag \in fallback THEN PlainValue(item, tag)
                                  ELSE MISSING

\* C16 as stated: the fallback to the non-namespaced tag applies to title,
\* description and link only; any other attribute, google_product_category
\* included, is MISSING when only a non-namespaced tag carries it.
C16_FallbackThreeOnly == FallbackOnly({"title", "description", "link"})

\* C16, amended: the fallback applies to title, description, link and
\* google_product_category, and to no other attribute.
C16_FallbackFourOnly ==
  FallbackOnly({"title", "description", "link", "google_product_category"})

\* an item with non-namespaced tags only: the four attributes are taken
\* from them, the brand and the id are not
C16_Witness ==
  /\ pc = "extracted" /\ src.kind = "xml" /\ Len(src.doc.items) = 1
  /\ src.doc.items[1].g = EmptyDict
  /\ Get(src.doc.items[1].plain, "brand") = <<"P">>
  /\ data.value[1]["title"] = <<"P">>
  /\ data.value[1]["google_product_category"] = <<"P">>
  /\ data.value[1]["brand"] = MISSING
  /\ data.value[1]["id"] = MISSING

(***************************************************************************)
(* validate_products on dimension and weight values (SpecDims)             *)
(***************************************************************************)
\* dimension and weight fields as a caller of validate_products may pass them
DimValues ==
  {MISSING, <<>>, <<"1", "0">>, <<"1", "0", " ", "c", "m">>, <<"1", "0", "c", "m">>,
   <<"1", "0", " ", " ", "c", "m">>, <<"1", "0", "\t", "c", "m">>,
   <<"1", ".", "5", "k", "g">>, <<"1", ",", "5", " ", "K", "G">>,
   <<"-", "5", " ", "c", "m">>, <<"1", "0", " ", "m">>, <<"a", "b", "c">>,
   <<"1", "0", " ", "c", "m", "\n">>, <<"1", "0", " ">>, <<"1", ".", " ", "c", "m">>,
   <<".", "5", " ", "g">>, <<"1", "0", "\n">>, <<"5", " ", "I", "n">>,
   <<"1", "0", " ", "c", "m", " ">>}

\* batches of one product: any length, any weight, the five other
\* attributes all present or all absent
DimBatches ==
  {<<[k \in DOMAIN FullProduct |->
        CASE k = "product_length" -> len
          [] k = "product_weight" -> weight
          [] k \in _DIMENSION_ATTRS \ {"product_length", "product_weight"} -> other
          [] OTHER -> FullProduct[k]]>> :
     len \in DimValues, weight \in DimValues,
     other \in {MISSING, <<"1", "0", " ", "c", "m">>}}

InitDims ==
  /\ pc = "loop"
  /\ products \in DimBatches
  /\ validated = <<>> /\ seen_ids = {}
  /\ raw = Unused /\ out = Unused /\ out2 = Unused /\ flags = Unused
  /\ src = Unused /\ data = Unused

SpecDims == InitDims /\ [][Next]_vars

(***************************************************************************)
(* Claims on the dimension rules (specification SpecDims)                  *)
(***************************************************************************)
\* digits, optionally "." or "," and at least one digit
IsDecimalNumber(a) ==
  LET tail(rest) == \/ rest = <<>>
                    \/ /\ Len(rest) >= 2 /\ rest[1] \in {".", ","}
                       /\ AllIn(Tail(rest), Digit)
      split(int) == Len(int) >= 1 /\ tail(SubSeq(a, Len(int) + 1, Len(a)))
  IN split(TakeWhile(a, Digit))

DimUnits == {<<"m", "m">>, <<"c", "m">>, <<"i", "n">>, <<"k", "g">>, <<"g">>}

\* a decimal number, then sep, then a unit in any case or no unit
IsDimension(v, seps) ==
  \E sep \in seps, unit \in DimUnits \cup {<<>>} :
     /\ Len(v) >= Len(sep) + Len(unit) + 1
     /\ ToLower(SubSeq(v, Len(v) - Len(unit) + 1, Len(v))) = unit
     /\ SubSeq(v, Len(v) - Len(unit) - Len(sep) + 1, Len(v) - Len(unit)) = sep
     /\ IsDecimalNumber(SubSeq(v, 1, Len(v) - Len(unit) - Len(sep)))

\* the two dimension flags of every product, for the given notion of an
\* absent value and of a well-formed one
DimensionRules(Absent(_), WellFormed(_)) ==
  \A i \in 1..Len(validated) :
     /\ validated[i]["missing_dimensions_weight"] =
          Flag(\E a \in _DIMENSION_ATTRS : Absent(products[i][a]))
     /\ validated[i]["invalid_dimension_format"] =
          Flag(\E a \in _DIMENSION_ATTRS :
                 ~Absent(products[i][a]) /\ ~WellFormed(products[i][a]))
     /\ (\A a \in _DIMENSION_ATTRS : products[i][a] = MISSING) =>
          /\ validated[i]["missing_dimensions_weight"] = Erreur
          /\ validated[i]["invalid_dimension_format"] = OK

\* C17 as stated: missing_dimensions_weight is Erreur exactly when one of
\* the 7 attributes is MISSING; invalid_dimension_format is Erreur exactly
\* when one that is not MISSING is not a non-negative decimal number, an
\* optional single space, an optional unit among mm, cm, in, kg, g in any
\* case; all 7 MISSING give Erreur and OK.
C17_MissingOnlySingleSpace ==
  LET Absent(v) == v = MISSING
      WellFormed(v) == IsDimension(v, {<<>>, <<" ">>})
  IN DimensionRules(Absent, WellFormed)

\* C17, amended: missing_dimensions_weight is Erreur exactly when one of
\* the 7 attributes is MISSING or empty; invalid_dimension_format is Erreur
\* exactly when one that is neither MISSING nor empty is not a decimal
\* number, at most one whitespace character, an optional unit among mm, cm,
\* in, kg, g in any case, a final line feed being tolerated; all 7 MISSING
\* give Erreur and OK.
C17_AbsentOrEmptyOneWhitespace ==
  LET Absent(v) == v \in {MISSING, <<>>}
      seps == {<<>>} \cup {<<w>> : w \in Whitespace}
      WellFormed(v) == IsDimension(v, seps) \/ IsDimension(ChompLf(v), seps)
  IN DimensionRules(Absent, WellFormed)

\* a length separated from its unit by a tab beside an empty weight: the
\* format is accepted and the empty value counts as missing
C17_Witness ==
  /\ Len(validated) = 1
  /\ products[1]["product_length"] = <<"1", "0", "\t", "c", "m">>
  /\ products[1]["product_weight"] = <<>>
  /\ products[1]["shipping_width"] = <<"1", "0", " ", "c", "m">>
  /\ validated[1]["missing_dimensions_weight"] = Erreur
  /\ validated[1]["invalid_dimension_format"] = OK

\* C18: ships_from_country of a line is its last field whose trimmed text
\* has 2 or 3 characters, all of them uppercase letters; a field with a
\* digit or a punctuation character is never taken, and without such a
\* field the attribute is MISSING.
C18_UppercaseLettersOnly ==
  (pc = "extracted" /\ src.kind = "txt" /\ Len(src.doc) = 1 /\ Len(data.value) = 1) =>
    LET fields == Split(Strip(src.doc[1]), "|")
        hits == {i \in 1..Len(fields) :
                   Len(Strip(fields[i])) \in {2, 3} /\ AllIn(Strip(fields[i]), Upper)}
    IN data.value[1]["ships_from_country"] =
         IF hits = {} THEN MISSING
         ELSE Strip(fields[CHOOSE i \in hits : \A j \in hits : i >= j])

(***************************************************************************)
(* Claims on generate_excel (specification SpecReport), continued          *)
(***************************************************************************)
\* the rows of the rollup by status
Rollup == out.Synthese_par_statut

\* every canonical attribute is a member of exactly one rollup row, and a
\* row counts as many attributes as it lists and as it averages
RollupPartition ==
  /\ \A a \in Range(_PRODUCT_ATTRS) :
       Cardinality({s \in 1..Len(Rollup) : a \in Range(Rollup[s].Attributs)}) = 1
  /\ \A s \in 1..Len(Rollup) :
       /\ Rollup[s].Nb = Len(Rollup[s].Attributs)
       /\ Rollup[s].Nb = Cardinality(Range(Rollup[s].Attributs))
       /\ Rollup[s].Nb = Len(completion_attrs(Rollup[s].Statut))
       /\ Range(Rollup[s].Attributs) = Range(completion_attrs(Rollup[s].Statut))
       /\ Rollup[s].Nb >= 1
       /\ Rollup[s].avg =
            Format1f(100 * (Rollup[s].Nb * total(validated))
                       - 100 * Cardinality({<<i, a>> \in
                           (1..Len(validated)) \X Range(Rollup[s].Attributs) :
                              validated[i][a] \in {<<>>, MISSING}}),
                     Rollup[s].Nb * total(validated))

\* C19 as stated: every rollup row is one of the four categories Mandatory,
\* Mandatory-conditional, Recommended, Recommended-conditional; every
\* canonical attribute is counted in exactly one row; a row's count is the
\* number of its members and of the completion values it averages.
C19_FourCategories ==
  pc = "reported" =>
    /\ \A s \in 1..Len(Rollup) :
         Rollup[s].Statut \in {"Mandatory", "Mandatory-conditional", "Recommended",
                               "Recommended-conditional"}
    /\ RollupPartition

\* C19, amended: the rollup has one row per distinct status text of
\* FIELD_STATUS (13 of them, the condition being part of the text), in the
\* order of their first attribute; every canonical attribute is counted in
\* exactly one row; a row's count is the number of its members and of the
\* completion values it averages.
C19_RowPerStatusText ==
  pc = "reported" =>
    /\ {Rollup[s].Statut : s \in 1..Len(Rollup)} =
         {FIELD_STATUS[i][2] : i \in 1..Len(FIELD_STATUS)}
    /\ Len(Rollup) = Cardinality({FIELD_STATUS[i][2] : i \in 1..Len(FIELD_STATUS)})
    /\ Len(Rollup) = 13
    /\ \A s, t \in 1..Len(Rollup) :
         s < t => (\E a \in 1..Len(_PRODUCT_ATTRS) :
                     /\ FieldStatusGet(_PRODUCT_ATTRS[a]) = Rollup[s].Statut
                     /\ \A b \in 1..a : FieldStatusGet(_PRODUCT_ATTRS[b]) # Rollup[t].Statut)
    /\ RollupPartition

\* a report of two products, one without title, colour and two shipping
\* dimensions: the row of the 9 mandatory attributes and the row of the 10
\* attributes recommended for electronics
C19_Witness ==
  /\ pc = "reported" /\ Len(validated) = 2
  /\ validated[1]["title"] = <<"v">> /\ validated[2]["color"] = MISSING
  /\ \E s \in 1..Len(Rollup) :
       /\ Rollup[s].Statut = "Mandatory" /\ Rollup[s].Nb = 9
       /\ Rollup[s].avg = <<"9", "4", ".", "4">>
  /\ \E s \in 1..Len(Rollup) :
       /\ Rollup[s].Statut = "Recommended for ELECTRONICS & HOUSEHOLD EQUIPEMENT"
       /\ Rollup[s].Nb = 10
       /\ Rollup[s].avg = <<"9", "0", ".", "0">>

====
